---- MODULE Spec2Model ----
(***************************************************************************)
(* akoctl: RBAC reconciliation (pkg/auth) and diagnostic collection        *)
(* (pkg/collectinfo) against a Kubernetes cluster.                         *)
(*                                                                         *)
(* The cluster is the persistent state.  One run of `akoctl auth create`   *)
(* or `akoctl auth delete` is one action (the program is sequential and    *)
(* nothing else writes the objects meanwhile).  The iteration order of the *)
(* namespace set (a Go map) is an input of every run.                      *)
(***************************************************************************)
EXTENDS Integers, Sequences, FiniteSets, TLC

\* ------------------------------------------------------------------ bounds
\* Number of akoctl auth commands run one after the other against the cluster.
MaxRuns == 3

\* ------------------------------------------------------------ program names
ServiceAccountName == "aerospike-operator-controller-manager"
ClusterRoleName == "aerospike-cluster"
ClusterRoleBindingName == "aerospike-cluster"
RoleBindingName == "aerospike-cluster"

ServiceAccountKind == "ServiceAccount"
RoleBindingKind == "RoleBinding"
ClusterRoleKind == "ClusterRole"
ClusterRoleBindingKind == "ClusterRoleBinding"
GroupName == "rbac.authorization.k8s.io"

\* Namespaces a command may be pointed at, and the cluster scope "namespace".
Namespaces == {"ns1", "ns2"}
NoNamespace == ""

VARIABLES
    nsExists,     \* namespaces that exist in the cluster
    apiFail,      \* the API call class the server rejects (Forbidden etc.), or "none"
    sa,           \* namespaces holding the ServiceAccount ServiceAccountName
    rb,           \* namespace -> RoleBinding RoleBindingName
    crb,          \* ClusterRoleBinding ClusterRoleBindingName
    clusterRole,  \* the ClusterRole ClusterRoleName exists
    hist          \* the commands run so far, oldest first

authVars == <<nsExists, apiFail, sa, rb, crb, clusterRole, hist>>

\* akoctl collectinfo: the revision of the tool that runs, its parameters, the
\* claims the cluster holds, the position of the run, the output directory and
\* the archive
VARIABLES release, params, claims, ci, tree, tar

\* the pages the event list of a namespace comes in, and the lines of the event
\* file written for each namespace
VARIABLES events, eventsLog

\* what each akoctl collectinfo process found under the root of the output
\* when it started, oldest first
VARIABLES starts

collectVars == <<release, params, claims, ci, tree, tar, events, eventsLog, starts>>

\* akoctl on one event and on its namespace flags: the event getInterval is
\* given and the text it returns; the flags of the command line and what
\* ValidateNamespaces answers
VARIABLES event, interval, flags, validated

cliVars == <<event, interval, flags, validated>>

\* ------------------------------------------------------------------ objects
\* roleRef built by createOrUpdateBinding
DesiredRoleRef == [apiGroup |-> GroupName, kind |-> ClusterRoleKind, name |-> ClusterRoleName]
\* a roleRef some other tool gave a binding of the same name
OtherRoleRef == [apiGroup |-> GroupName, kind |-> ClusterRoleKind, name |-> "cluster-admin"]

\* sub in Create: the subject of the service account of namespace ns
Subject(ns) == [kind |-> ServiceAccountKind, name |-> ServiceAccountName, namespace |-> ns]
\* subjects of a binding that akoctl did not write
ForeignUser == [kind |-> "User", name |-> "alice", namespace |-> NoNamespace]
ForeignSA == [kind |-> ServiceAccountKind, name |-> "default", namespace |-> "ns1"]

Absent == [exists |-> FALSE, subjects |-> <<>>, roleRef |-> DesiredRoleRef]
Binding(subjects, roleRef) == [exists |-> TRUE, subjects |-> subjects, roleRef |-> roleRef]

SeqToSet(s) == {s[i] : i \in 1..Len(s)}
\* every order in which `for ns := range params.Namespaces` may visit the set
Orders(S) == {o \in [1..Cardinality(S) -> S] : \A i, j \in 1..Cardinality(S) : o[i] = o[j] => i = j}

\* one API call, as the server sees it
Call(verb, kind, ns) == [verb |-> verb, kind |-> kind, ns |-> ns]

\* ------------------------------------------------------- the cluster API
\* A run works on a record w: the objects (sa, rb, crb, clusterRole), the calls
\* issued so far, the result of the latest call (res), the error the run returns
\* (err), the subjects accumulated by Create and the namespaces whose loop body
\* was entered (visited).
Fails(class) == apiFail = class

Logged(w, verb, kind, ns) == [w EXCEPT !.calls = @ \cup {Call(verb, kind, ns)}]

GetStored(w, kind, ns) == IF kind = RoleBindingKind THEN w.rb[ns] ELSE w.crb

Store(w, kind, ns, b) ==
    IF kind = RoleBindingKind THEN [w EXCEPT !.rb[ns] = b] ELSE [w EXCEPT !.crb = b]

\* params.K8sClient.Create(ctx, sa)
K8sCreateSA(w, ns) ==
    LET w1 == Logged(w, "create", ServiceAccountKind, ns) IN
    IF Fails("create_sa") THEN [w1 EXCEPT !.res = "error"]
    ELSE IF ns \notin nsExists THEN [w1 EXCEPT !.res = "notfound"]
    ELSE IF ns \in w.sa THEN [w1 EXCEPT !.res = "exists"]
    ELSE [w1 EXCEPT !.sa = @ \cup {ns}, !.res = "ok"]

\* params.K8sClient.Create(ctx, unstruct)
K8sCreateBinding(w, kind, ns, obj) ==
    LET w1 == Logged(w, "create", kind, ns) IN
    IF Fails("create_binding") THEN [w1 EXCEPT !.res = "error"]
    ELSE IF kind = RoleBindingKind /\ ns \notin nsExists THEN [w1 EXCEPT !.res = "notfound"]
    ELSE IF GetStored(w, kind, ns).exists THEN [w1 EXCEPT !.res = "exists"]
    ELSE [Store(w1, kind, ns, obj) EXCEPT !.res = "ok"]

\* params.K8sClient.Get(ctx, nsNm, currentResource)
K8sGetBinding(w, kind, ns) ==
    LET w1 == Logged(w, "get", kind, ns) IN
    IF Fails("get") THEN [w1 EXCEPT !.res = "error"]
    ELSE IF ~GetStored(w, kind, ns).exists THEN [w1 EXCEPT !.res = "notfound"]
    ELSE [w1 EXCEPT !.res = "ok"]

\* params.K8sClient.Update(ctx, currentResource)
K8sUpdateBinding(w, kind, ns, obj) ==
    LET w1 == Logged(w, "update", kind, ns) IN
    IF Fails("update") THEN [w1 EXCEPT !.res = "error"]
    ELSE IF ~GetStored(w, kind, ns).exists THEN [w1 EXCEPT !.res = "notfound"]
    ELSE [Store(w1, kind, ns, obj) EXCEPT !.res = "ok"]

\* params.K8sClient.Delete(ctx, unstruct): the object of that kind and name
K8sDelete(w, kind, ns) ==
    LET w1 == Logged(w, "delete", kind, ns)
        there == CASE kind = ServiceAccountKind -> ns \in w.sa
                   [] kind = RoleBindingKind -> w.rb[ns].exists
                   [] kind = ClusterRoleBindingKind -> w.crb.exists
                   [] kind = ClusterRoleKind -> w.clusterRole
    IN
    IF Fails("delete") THEN [w1 EXCEPT !.res = "error"]
    ELSE IF ~there THEN [w1 EXCEPT !.res = "notfound"]
    ELSE CASE kind = ServiceAccountKind -> [w1 EXCEPT !.sa = @ \ {ns}, !.res = "ok"]
           [] kind = RoleBindingKind -> [w1 EXCEPT !.rb[ns] = Absent, !.res = "ok"]
           [] kind = ClusterRoleBindingKind -> [w1 EXCEPT !.crb = Absent, !.res = "ok"]
           [] kind = ClusterRoleKind -> [w1 EXCEPT !.clusterRole = FALSE, !.res = "ok"]

\* ----------------------------------------------------------------- pkg/auth
\* a plausible slip: a merge that keeps only the new subjects
mergeSubjectsOverwrite(baseSub, patchSub) == patchSub

\* mergeSubjects: baseSub followed by the patchSub entries equal to no baseSub entry
mergeSubjects(baseSub, patchSub) ==
    LET Matched(p) == \E baseIdx \in 1..Len(baseSub) : baseSub[baseIdx] = p
        newSubs == SelectSeq(patchSub, LAMBDA p : ~Matched(p))
    IN IF Len(newSubs) > 0 THEN baseSub \o newSubs ELSE baseSub

\* a plausible slip: a check that lets any roleRef pass
RoleRefDiffersNever(current, desired) == FALSE

\* !reflect.DeepEqual(currentResource.Object["roleRef"], unstruct.Object["roleRef"])
RoleRefDiffers(current, desired) == current # desired

\* !reflect.DeepEqual(currentResource.Object["subjects"], unstruct.Object["subjects"]):
\* the existing list against the desired list, element by element and in order
SubjectsDiffer(current, desired) == current # desired

\* a plausible slip: a loop that goes on with a namespace that does not exist
SkipNamespaceNever(res) == FALSE

\* err != nil && errors.IsNotFound(err): the namespace is skipped
SkipNamespace(res) == res = "notfound"

createOrUpdateBinding(w, kind, ns, subjects) ==
    LET unstruct == Binding(subjects, DesiredRoleRef)
        c == K8sCreateBinding(w, kind, ns, unstruct)
    IN
    IF c.res = "exists"
    THEN LET g == K8sGetBinding(c, kind, ns)
             currentResource == GetStored(g, kind, ns)
         IN
         IF g.res # "ok" THEN [g EXCEPT !.err = "get"]
         ELSE IF RoleRefDiffers(currentResource.roleRef, unstruct.roleRef) THEN [g EXCEPT !.err = "roleRef"]
         ELSE IF SubjectsDiffer(currentResource.subjects, unstruct.subjects)
              THEN LET merged == [currentResource EXCEPT
                                      !.subjects = mergeSubjects(@, unstruct.subjects)]
                       u == K8sUpdateBinding(g, kind, ns, merged)
                   IN IF u.res # "ok" THEN [u EXCEPT !.err = "update"] ELSE u
              ELSE g
    \* created, or any other Create error: "Created resource" is logged, nil returned
    ELSE c

\* the body of `for ns := range params.Namespaces` in Create, from position i of order
RECURSIVE CreateLoop(_, _, _, _)
CreateLoop(w, order, i, clusterScope) ==
    IF i > Len(order) THEN w
    ELSE LET ns == order[i]
             s == K8sCreateSA([w EXCEPT !.visited = Append(@, ns)], ns)
         IN
         IF SkipNamespace(s.res) THEN CreateLoop(s, order, i + 1, clusterScope)
         ELSE IF ~clusterScope
              THEN LET b == createOrUpdateBinding(s, RoleBindingKind, ns, <<Subject(ns)>>)
                   IN IF b.err # "none" THEN b ELSE CreateLoop(b, order, i + 1, clusterScope)
              ELSE CreateLoop([s EXCEPT !.subjects = Append(@, Subject(ns))],
                              order, i + 1, clusterScope)

\* auth.Create
Create(w, order, clusterScope) ==
    LET l == CreateLoop(w, order, 1, clusterScope) IN
    IF l.err # "none" THEN l
    ELSE IF ~clusterScope \/ Len(l.subjects) = 0 THEN l
    ELSE createOrUpdateBinding(l, ClusterRoleBindingKind, NoNamespace, l.subjects)

\* a plausible slip: the error of the Delete call is handed back
deleteResourceReturning(w, kind, ns) ==
    LET d == K8sDelete(w, kind, ns)
    IN IF d.res # "ok" THEN [d EXCEPT !.err = "delete"] ELSE d

\* deleteResource: every error of the Delete call is logged and dropped
deleteResource(w, kind, ns) == K8sDelete(w, kind, ns)

\* the kind of the object Delete removes when no subject is left
EmptiedBindingKind == ClusterRoleKind

RECURSIVE DeleteLoop(_, _, _, _)
DeleteLoop(w, order, i, clusterScope) ==
    IF i > Len(order) THEN w
    ELSE LET ns == order[i]
             s == deleteResource([w EXCEPT !.visited = Append(@, ns)], ServiceAccountKind, ns)
             r == IF ~clusterScope THEN deleteResource(s, RoleBindingKind, ns) ELSE s
         IN DeleteLoop(r, order, i + 1, clusterScope)

\* a plausible slip: a Delete that writes the binding back whatever the filter removed
NothingRemovedNever(kept, subjects) == FALSE

\* len(filtered) == len(crb.Subjects): "Update not required, skipping"
NothingRemoved(kept, subjects) == Len(kept) = Len(subjects)

\* a plausible slip: every service account of a target namespace is removed
filteredAnyName(subjects, namespaces) ==
    SelectSeq(subjects, LAMBDA sub : ~(sub.kind = ServiceAccountKind
                                       /\ sub.namespace \in namespaces))

\* the filter of Delete: the subjects that stay
filtered(subjects, namespaces) ==
    SelectSeq(subjects, LAMBDA sub : ~(sub.kind = ServiceAccountKind
                                       /\ sub.name = ServiceAccountName
                                       /\ sub.namespace \in namespaces))

\* a plausible slip: the role bindings go in either scope
DeleteAnyScope(w, order, clusterScope) == DeleteLoop(w, order, 1, FALSE)

\* auth.Delete
Delete(w, order, clusterScope) ==
    LET l == DeleteLoop(w, order, 1, clusterScope)
        namespaces == SeqToSet(order)
    IN
    IF ~clusterScope THEN l
    ELSE LET g == K8sGetBinding(l, ClusterRoleBindingKind, NoNamespace)
             kept == filtered(g.crb.subjects, namespaces)
         IN
         IF g.res # "ok" THEN [g EXCEPT !.err = IF g.res = "notfound" THEN "notfound" ELSE "get"]
         ELSE IF Len(kept) = 0
              THEN deleteResource(g, EmptiedBindingKind, NoNamespace)
         ELSE IF NothingRemoved(kept, g.crb.subjects) THEN g
         ELSE LET u == K8sUpdateBinding(g, ClusterRoleBindingKind, NoNamespace,
                                        [g.crb EXCEPT !.subjects = kept])
              IN IF u.res # "ok" THEN [u EXCEPT !.err = "update"] ELSE u

\* ------------------------------------------------------------ the commands
\* what a run starts from: the cluster's objects, no call issued yet
StartOfRun ==
    [sa |-> sa, rb |-> rb, crb |-> crb, clusterRole |-> clusterRole,
     calls |-> {}, res |-> "ok", err |-> "none", subjects |-> <<>>, visited |-> <<>>]

Objects(w) == [sa |-> w.sa, rb |-> w.rb, crb |-> w.crb, clusterRole |-> w.clusterRole]

\* the record of one finished command: its inputs, the calls it issued, the
\* namespaces whose loop body it entered, the error it returned and the objects
\* it started from
Ran(op, order, clusterScope, w) ==
    [op |-> op, clusterScope |-> clusterScope, namespaces |-> SeqToSet(order),
     err |-> w.err, calls |-> w.calls, visited |-> SeqToSet(w.visited),
     pre |-> Objects(StartOfRun)]

\* the cluster after the run, and the record of the run.  Under Spec only the
\* last command is remembered; under SpecSeq (keep) all of them, up to MaxRuns.
Finish(op, order, clusterScope, w, keep) ==
    /\ sa' = w.sa
    /\ rb' = w.rb
    /\ crb' = w.crb
    /\ clusterRole' = w.clusterRole
    /\ keep => Len(hist) < MaxRuns
    /\ hist' = IF keep THEN Append(hist, Ran(op, order, clusterScope, w))
                       ELSE <<Ran(op, order, clusterScope, w)>>
    /\ UNCHANGED <<nsExists, apiFail>>
    /\ UNCHANGED collectVars
    /\ UNCHANGED cliVars

\* params.Namespaces: a non-empty set of namespace names
TargetSets == (SUBSET Namespaces) \ {{}}

\* akoctl auth create
AuthCreate(keep) ==
    \E namespaces \in TargetSets, clusterScope \in BOOLEAN :
       \E order \in Orders(namespaces) :
          \E w \in {Create(StartOfRun, order, clusterScope)} :
             Finish("create", order, clusterScope, w, keep)

\* akoctl auth delete
AuthDelete(keep) ==
    \E namespaces \in TargetSets, clusterScope \in BOOLEAN :
       \E order \in Orders(namespaces) :
          \E w \in {Delete(StartOfRun, order, clusterScope)} :
             Finish("delete", order, clusterScope, w, keep)

\* ------------------------------------------------------ pkg/collectinfo
RootOutputDir == "akoctl_collectinfo"
NamespaceScopedDir == "k8s_namespaces"
ClusterScopedDir == "k8s_cluster"
FileSuffix == ".yaml"
SummaryDir == "summary"
SummaryFile == "summary.txt"
EventsFile == "events.txt"
MutatingWebhookPrefix == "maerospike"
ValidatingWebhookPrefix == "vaerospike"
MutatingWebhookPrefixPrev == "maerospikecluster.kb.io"
ValidatingWebhookPrefixPrev == "vaerospikecluster.kb.io"
MutatingWebhookName == "aerospike-operator-mutating-webhook-configuration"
ValidatingWebhookName == "aerospike-operator-validating-webhook-configuration"

NodeKind == "Node"
PVCKind == "PersistentVolumeClaim"
PVKind == "PersistentVolume"
STSKind == "StatefulSet"
DeployKind == "Deployment"
RSKind == "ReplicaSet"
SCKind == "StorageClass"
AerospikeClusterKind == "AerospikeCluster"
AerospikeBackupServiceKind == "AerospikeBackupService"
AerospikeBackupKind == "AerospikeBackup"
AerospikeRestoreKind == "AerospikeRestore"
PodKind == "Pod"
EventKind == "Event"
ServiceKind == "Service"
PodDisruptionBudgetKind == "PodDisruptionBudget"
ConfigMapKind == "ConfigMap"
MutatingWebhookKind == "MutatingWebhookConfiguration"
ValidatingWebhookKind == "ValidatingWebhookConfiguration"

\* the two revisions of pkg/collectinfo in the source tree
Releases == {"current", "previous"}

KindDirNames(kind) ==
    CASE kind = NodeKind -> "nodes"
      [] kind = PVCKind -> "persistentvolumeclaims"
      [] kind = PVKind -> "persistentvolumes"
      [] kind = STSKind -> "statefulsets"
      [] kind = DeployKind -> "deployments"
      [] kind = SCKind -> "storageclasses"
      [] kind = AerospikeClusterKind -> "aerospikeclusters"
      [] kind = PodKind -> "pods"
      [] kind = EventKind -> "events"
      [] kind = MutatingWebhookKind -> "mutatingwebhookconfigurations"
      [] kind = ValidatingWebhookKind -> "validatingwebhookconfigurations"
      [] kind = ServiceKind -> "services"
      [] kind = AerospikeBackupServiceKind -> "aerospikebackupservices"
      [] kind = AerospikeBackupKind -> "aerospikebackups"
      [] kind = AerospikeRestoreKind -> "aerospikerestores"
      [] kind = PodDisruptionBudgetKind -> "poddisruptionbudgets"
      [] kind = ConfigMapKind -> "configmaps"
      [] kind = RSKind -> "replicasets"

gvkListNSScoped(rel) ==
    IF rel = "current"
    THEN <<AerospikeClusterKind, AerospikeBackupServiceKind, AerospikeBackupKind,
           AerospikeRestoreKind, STSKind, DeployKind, RSKind, PodKind, PVCKind,
           ServiceKind, PodDisruptionBudgetKind, ConfigMapKind>>
    ELSE <<PVCKind, STSKind, AerospikeClusterKind>>

gvkListClusterScoped(rel) ==
    IF rel = "current"
    THEN <<NodeKind, SCKind, PVKind, MutatingWebhookKind, ValidatingWebhookKind>>
    ELSE <<NodeKind, SCKind>>

gvkListWebhooks == <<MutatingWebhookKind, ValidatingWebhookKind>>

\* strings.HasPrefix
HasPrefix(s, prefix) == Len(s) >= Len(prefix) /\ SubSeq(s, 1, Len(prefix)) = prefix

\* ---- the cluster the run reads
NoVolume == "<nil>"
Item(name) == [name |-> name, volumeName |-> NoVolume]
Claim(name, volumeName) == [name |-> name, volumeName |-> volumeName]

\* the claims one namespace may hold: none, an unbound one, a bound one, two bound
ClaimLists ==
    { <<>>,
      <<Claim("data", NoVolume)>>,
      <<Claim("data", "pv1")>>,
      <<Claim("data", "pv2"), Claim("logs", "pv3")>> }

\* the persistent volumes of the cluster; pv4 and pv10 are bound to no claim
PersistentVolumes == <<Item("pv1"), Item("pv2"), Item("pv3"), Item("pv4"), Item("pv10")>>

\* the names of the webhook configurations of the cluster, listed for either kind
WebhookNames ==
    << "cert-manager-webhook",
       "maerospik",
       "maerospike.example",
       "maerospikecluster.kb.io",
       "vaerospike.example",
       "vaerospikecluster.kb.io-2",
       MutatingWebhookName,
       ValidatingWebhookName >>

Webhooks == [i \in 1..Len(WebhookNames) |-> Item(WebhookNames[i])]

\* the Aerospike clusters of a namespace
AerospikeClusters(ns) == IF ns = "ns1" THEN <<Item("aerocluster")>> ELSE <<>>

\* k8sClient.List of one kind in one namespace ("" for cluster-scoped kinds)
List(kind, ns) ==
    CASE kind = PVCKind -> claims[ns]
      [] kind = PVKind -> PersistentVolumes
      [] kind \in {MutatingWebhookKind, ValidatingWebhookKind} -> Webhooks
      [] kind = AerospikeClusterKind -> AerospikeClusters(ns)
      [] OTHER -> <<>>

\* ---- the output tree: paths below the directory the run was given
ScopeDir(ns) == IF ns = NoNamespace THEN <<RootOutputDir, ClusterScopedDir>>
                ELSE <<RootOutputDir, NamespaceScopedDir, ns>>
KindDir(ns, kind) == ScopeDir(ns) \o <<KindDirNames(kind)>>
FilePath(ns, kind, name) == KindDir(ns, kind) \o <<name \o FileSuffix>>
SummaryPath(ns) == ScopeDir(ns) \o <<SummaryDir, SummaryFile>>
EventsPath(ns) == ScopeDir(ns) \o <<SummaryDir, EventsFile>>

\* ---- path strings: path/filepath and strings of the Go library
Separator == "/"

RECURSIVE SplitPath(_, _, _, _)
SplitPath(s, i, cur, acc) ==
    IF i > Len(s) THEN Append(acc, cur)
    ELSE IF SubSeq(s, i, i) = Separator THEN SplitPath(s, i + 1, "", Append(acc, cur))
    ELSE SplitPath(s, i + 1, cur \o SubSeq(s, i, i), acc)

RECURSIVE JoinElements(_)
JoinElements(elems) ==
    IF Len(elems) = 0 THEN ""
    ELSE IF Len(elems) = 1 THEN elems[1]
    ELSE elems[1] \o Separator \o JoinElements(Tail(elems))

\* the elements of a path with "", "." and resolvable ".." taken out
RECURSIVE Resolve(_, _, _)
Resolve(elems, rooted, acc) ==
    IF Len(elems) = 0 THEN acc
    ELSE LET e == elems[1]
             rest == Tail(elems)
         IN IF e = "" \/ e = "." THEN Resolve(rest, rooted, acc)
            ELSE IF e # ".." THEN Resolve(rest, rooted, Append(acc, e))
            ELSE IF Len(acc) > 0 /\ acc[Len(acc)] # ".."
                 THEN Resolve(rest, rooted, SubSeq(acc, 1, Len(acc) - 1))
            ELSE IF rooted THEN Resolve(rest, rooted, acc)
            ELSE Resolve(rest, rooted, Append(acc, e))

\* filepath.Clean
Clean(s) ==
    IF s = "" THEN "."
    ELSE LET rooted == SubSeq(s, 1, 1) = Separator
             body == JoinElements(Resolve(SplitPath(s, 1, "", <<>>), rooted, <<>>))
         IN IF rooted THEN Separator \o body
            ELSE IF body = "" THEN "." ELSE body

\* filepath.Join of two elements: empty elements are ignored, the result is cleaned
Join(a, b) ==
    IF a = "" /\ b = "" THEN ""
    ELSE IF a = "" THEN Clean(b)
    ELSE IF b = "" THEN Clean(a)
    ELSE Clean(a \o Separator \o b)

\* strings.TrimPrefix
TrimPrefix(s, prefix) ==
    IF HasPrefix(s, prefix) THEN SubSeq(s, Len(prefix) + 1, Len(s)) ELSE s

\* the directories a run may be given as --path
BasePaths == {"", "/tmp/out", "/tmp/out/", "out", "out/", "./out"}

\* filepath.Join(src, RootOutputDir), the root of the walk, for each base path
WalkRoots == [src \in BasePaths |-> Join(src, RootOutputDir)]

\* the name filepath.Walk hands to the callback of compress for a path of the tree
WalkedFile(src, p) == JoinElements(<<WalkRoots[src]>> \o Tail(p))

\* compress: header.Name of the entry of a path of the tree
HeaderName(src, p) == TrimPrefix(WalkedFile(src, p), src)

\* ---- injected failures: the step of a loop that fails (0: none) and, within
\* it, the write that fails (0: the List call itself)
MaxWrites == 2
Faults(steps) == [step : 0..steps, write : 0..MaxWrites, stream : {0}, how : {"none"}]
\* the List call of a step answers that the kind is not served
ListFaults(steps) == [step : 1..steps, write : {0}, stream : {0}, how : {"nokind", "nokind2"}]
NoFault == [step |-> 0, write |-> 0, stream |-> 0, how |-> "none"]
Fault(step) == [NoFault EXCEPT !.step = step]

\* ---- captureObject
\* a plausible slip: every listed volume is kept
PVSkippedNever(name, nameSet) == FALSE

\* the volume is skipped unless a captured claim named it
PVSkipped(name, nameSet) == name \notin nameSet

\* a plausible slip: the exact well-known name is forgotten
WebhookSkippedByPrefix(name, prefix, exact) == ~HasPrefix(name, prefix)

\* a webhook configuration is skipped unless it has the prefix or the exact name
WebhookSkipped(name, prefix, exact) == ~HasPrefix(name, prefix) /\ name # exact

\* the switch on gvk.Kind in the item loop of captureObject (current revision)
Skipped(c, kind, item) ==
    CASE kind = PVKind -> PVSkipped(item.name, c.pvcNameSet)
      [] kind = ValidatingWebhookKind ->
            WebhookSkipped(item.name, ValidatingWebhookPrefix, ValidatingWebhookName)
      [] kind = MutatingWebhookKind ->
            WebhookSkipped(item.name, MutatingWebhookPrefix, MutatingWebhookName)
      [] OTHER -> FALSE

\* a plausible slip: the name set is made anew for each claim
InsertAlone(nameSet, name) == {name}

\* pvcNameSet.Insert(volumeName) on the package-level set
Insert(nameSet, name) == nameSet \cup {name}

\* the item loop: c.count objects of this kind written so far, the write numbered
\* failAt fails
RECURSIVE WriteItems(_, _, _, _, _, _, _)
WriteItems(c, rel, kind, ns, items, idx, failAt) ==
    IF idx > Len(items) THEN c
    ELSE LET item == items[idx]
             seen == IF rel = "current" /\ kind = PVCKind /\ item.volumeName # NoVolume
                     THEN [c EXCEPT !.pvcNameSet = Insert(@, item.volumeName)]
                     ELSE c
         IN IF rel = "current" /\ Skipped(seen, kind, item)
            THEN WriteItems(seen, rel, kind, ns, items, idx + 1, failAt)
            ELSE IF seen.count + 1 = failAt
            THEN [seen EXCEPT !.err = "write"]
            ELSE WriteItems([seen EXCEPT !.tree = @ \cup {FilePath(ns, kind, item.name)},
                                         !.count = @ + 1],
                            rel, kind, ns, items, idx + 1, failAt)

\* a plausible slip: the early return for an empty list is missing
NothingFoundNever(items) == FALSE

\* "if len(u.Items) == 0": nothing to save, return nil
NothingFound(items) == Len(items) = 0

\* a List call that failed, or the retry that followed it, and its answer
ListCall(kind, ns, version, answer) ==
    [kind |-> kind, ns |-> ns, version |-> version, answer |-> answer]

\* a plausible slip: the retry is made for any kind
RetriesAnyKind(rel, kind, listErr) == rel = "current" /\ listErr \in {"nokind", "nokind2"}

\* gvk.Kind == internal.AerospikeClusterKind && errors.Is(err, &meta.NoKindMatchError{}):
\* the list is asked again at v1beta1 (current revision)
Retries(rel, kind, listErr) ==
    rel = "current" /\ kind = AerospikeClusterKind /\ listErr \in {"nokind", "nokind2"}

\* one kind in one namespace: the List call and its retry, the directory, the
\* item loop
captureObject(c, rel, kind, ns, listErr, failAt) ==
    LET items == List(kind, ns)
        first == IF listErr = "none" THEN c
                 ELSE [c EXCEPT !.lists = Append(@, ListCall(kind, ns, "first",
                                                    IF listErr = "error" THEN "error" ELSE "nokind"))]
        asked == IF Retries(rel, kind, listErr)
                 THEN [first EXCEPT !.lists = Append(@, ListCall(kind, ns, "v1beta1",
                                                    IF listErr = "nokind" THEN "ok" ELSE "nokind"))]
                 ELSE first
        start == [asked EXCEPT !.count = 0]
        withDir == [start EXCEPT !.tree = @ \cup {KindDir(ns, kind)}]
    IN IF listErr # "none" /\ ~Retries(rel, kind, listErr) THEN [first EXCEPT !.err = "list"]
       ELSE IF listErr = "nokind2" THEN [asked EXCEPT !.err = "list"]
       ELSE IF rel = "current"
       THEN IF NothingFound(items) THEN start
            ELSE WriteItems(withDir, rel, kind, ns, items, 1, failAt)
       ELSE IF NothingFound(items) THEN withDir
            ELSE WriteItems(withDir, rel, kind, ns, items, 1, failAt)

\* captureWebhookConfigurations (previous revision)
RECURSIVE WriteWebhooks(_, _, _, _, _)
WriteWebhooks(c, kind, items, idx, failAt) ==
    IF idx > Len(items) THEN c
    ELSE LET name == items[idx].name
             skip == IF kind = MutatingWebhookKind
                     THEN WebhookSkipped(name, MutatingWebhookPrefixPrev, MutatingWebhookName)
                     ELSE WebhookSkipped(name, ValidatingWebhookPrefixPrev, ValidatingWebhookName)
         IN IF skip THEN WriteWebhooks(c, kind, items, idx + 1, failAt)
            ELSE IF c.count + 1 = failAt THEN [c EXCEPT !.err = "write"]
            ELSE WriteWebhooks([c EXCEPT !.tree = @ \cup {FilePath(NoNamespace, kind, name)},
                                         !.count = @ + 1],
                               kind, items, idx + 1, failAt)

captureWebhookConfigurations(c, kind, listFails, failAt) ==
    IF listFails THEN [c EXCEPT !.err = "list"]
    ELSE WriteWebhooks([c EXCEPT !.count = 0, !.tree = @ \cup {KindDir(NoNamespace, kind)}],
                       kind, List(kind, NoNamespace), 1, failAt)

\* ---- captureEvents (previous revision)
MaxEvents == 3
LogFileName == "akoctl.log"
NoObject == 0
EventsHeader == [object |-> NoObject, text |-> "LAST SEEN TYPE REASON OBJECT MESSAGE"]

\* all pages of the list, appended in the order they arrive
RECURSIVE Aggregate(_)
Aggregate(pages) == IF Len(pages) = 0 THEN <<>> ELSE pages[1] \o Aggregate(Tail(pages))

\* a plausible slip: an event goes before those created at the same time
BeforeOrEqual(a, b) == a.created <= b.created

\* the less function of the sort: creation time of a strictly before that of b
Before(a, b) == a.created < b.created

\* sort.SliceStable: each element goes behind every element that is not after it
RECURSIVE InsertStable(_, _)
InsertStable(sorted, e) ==
    IF Len(sorted) = 0 THEN <<e>>
    ELSE IF Before(e, sorted[Len(sorted)])
         THEN Append(InsertStable(SubSeq(sorted, 1, Len(sorted) - 1), e), sorted[Len(sorted)])
         ELSE Append(sorted, e)

RECURSIVE SliceStable(_, _)
SliceStable(items, n) ==
    IF n = 0 THEN <<>> ELSE InsertStable(SliceStable(items, n - 1), items[n])

\* strings.TrimSpace on a message held as its lines: blank lines at both ends go
RECURSIVE TrimSpace(_)
TrimSpace(msg) ==
    IF Len(msg) = 0 THEN <<"">>
    ELSE IF msg[1] = "" THEN TrimSpace(Tail(msg))
    ELSE IF msg[Len(msg)] = "" THEN TrimSpace(SubSeq(msg, 1, Len(msg) - 1))
    ELSE msg

\* appendOneEvent: the columns and the trimmed message, then a line break; the
\* line breaks inside the message stay
appendOneEvent(data, e) ==
    LET msg == TrimSpace(e.message)
    IN data \o [k \in 1..Len(msg) |->
                   [object |-> IF k = 1 THEN e.object ELSE NoObject, text |-> msg[k]]]

RECURSIVE appendEvents(_, _, _)
appendEvents(data, items, idx) ==
    IF idx > Len(items) THEN data
    ELSE appendEvents(appendOneEvent(data, items[idx]), items, idx + 1)

captureEvents(c, ns, pages, listFails, writeFails) ==
    LET items == Aggregate(pages)
        sorted == SliceStable(items, Len(items))
        data == appendEvents(<<EventsHeader>>, sorted, 1)
        dir == KindDir(ns, EventKind)
    IN IF listFails THEN [c EXCEPT !.err = "list"]
       ELSE IF Len(items) = 0 THEN c
       ELSE IF writeFails THEN [c EXCEPT !.tree = @ \cup {dir}, !.err = "write"]
       ELSE [c EXCEPT !.tree = @ \cup {dir, dir \o <<KindDirNames(EventKind) \o ".log">>},
                      !.log[ns] = data]

\* ---- capturePodLogs
Pod(name, containers, initContainers, restarted) ==
    [name |-> name, containers |-> containers, initContainers |-> initContainers,
     restarted |-> restarted]

\* the pods of a namespace: a container has logs of a previous instance only
\* when it was restarted
Pods(ns) ==
    IF ns = "ns1"
    THEN <<Pod("aero-0", <<"server">>, <<"init">>, {"server"}),
           Pod("aero-1", <<"server">>, <<>>, {})>>
    ELSE <<>>

\* the log streams asked of one pod, in the order of the two loops: for each
\* container and then each init container the running and the previous instance
PodStreams(pod) ==
    LET names == pod.containers \o pod.initContainers
    IN [i \in 1..(2 * Len(names)) |->
          [container |-> names[(i + 1) \div 2], previous |-> (i % 2 = 0)]]

RECURSIVE NumStreams(_, _)
NumStreams(pods, i) ==
    IF i > Len(pods) THEN 0 ELSE Len(PodStreams(pods[i])) + NumStreams(pods, i + 1)

PodLogsDir(ns, pod) == KindDir(ns, PodKind) \o <<pod.name, "logs">>
LogDir(ns, pod, previous) ==
    IF previous THEN PodLogsDir(ns, pod) \o <<"previous">> ELSE PodLogsDir(ns, pod)
LogPath(ns, pod, container, previous) == LogDir(ns, pod, previous) \o <<container \o ".log">>

\* what became of one log stream
Attempt(ns, pod, stream, result) ==
    [ns |-> ns, pod |-> pod.name, container |-> stream.container,
     previous |-> stream.previous, result |-> result]

\* "if _, err := io.Copy(buf, podLogs); err != nil { return err }"
ReadError(failed) == IF failed THEN "read" ELSE "none"

\* captureContainerLogs: c.stream streams asked so far in this call of
\* capturePodLogs, logFault names the stream that fails and how
captureContainerLogs(c, ns, pod, stream, failAt, logFault) ==
    LET n == c.stream + 1
        hit == logFault.stream = n
        in == [c EXCEPT !.stream = n]
        done(result) == [in EXCEPT !.logs = Append(@, Attempt(ns, pod, stream, result))]
    IN IF stream.previous /\ stream.container \notin pod.restarted
       THEN done("notfound")
       ELSE IF hit /\ logFault.how = "stream" THEN done("stream")
       ELSE IF ReadError(hit /\ logFault.how = "read") # "none"
       THEN [done("read") EXCEPT !.err = ReadError(TRUE)]
       ELSE IF in.count + 1 = failAt
       THEN [done("write") EXCEPT !.err = "write",
                                  !.tree = @ \cup {LogDir(ns, pod, stream.previous)}]
       ELSE [done("saved") EXCEPT
               !.tree = @ \cup {LogDir(ns, pod, stream.previous),
                                LogPath(ns, pod, stream.container, stream.previous)},
               !.count = @ + 1]

RECURSIVE captureStreams(_, _, _, _, _, _, _)
captureStreams(c, ns, pod, streams, i, failAt, logFault) ==
    IF i > Len(streams) \/ c.err # "none" THEN c
    ELSE captureStreams(captureContainerLogs(c, ns, pod, streams[i], failAt, logFault),
                        ns, pod, streams, i + 1, failAt, logFault)

\* the pod loop: the pod's folders, its manifest, then its streams
RECURSIVE capturePods(_, _, _, _, _, _)
capturePods(c, ns, pods, i, failAt, logFault) ==
    IF i > Len(pods) \/ c.err # "none" THEN c
    ELSE LET pod == pods[i]
             dirs == {KindDir(ns, PodKind), KindDir(ns, PodKind) \o <<pod.name>>,
                      PodLogsDir(ns, pod)}
             withDirs == [c EXCEPT !.tree = @ \cup dirs]
         IN IF withDirs.count + 1 = failAt THEN [withDirs EXCEPT !.err = "write"]
            ELSE capturePods(
                    captureStreams(
                       [withDirs EXCEPT
                          !.tree = @ \cup {KindDir(ns, PodKind) \o
                                             <<pod.name, pod.name \o FileSuffix>>},
                          !.count = @ + 1],
                       ns, pod, PodStreams(pod), 1, failAt, logFault),
                    ns, pods, i + 1, failAt, logFault)

capturePodLogs(c, ns, listFails, failAt, logFault) ==
    IF listFails THEN [c EXCEPT !.err = "list"]
    ELSE IF Len(Pods(ns)) = 0 THEN c
    ELSE capturePods([c EXCEPT !.count = 0, !.stream = 0], ns, Pods(ns), 1, failAt, logFault)

\* ---- captureSummary (current revision)
\* the kinds kubectl is run for: cmdMap
SummaryKinds(ns) ==
    IF ns # NoNamespace
    THEN {gvkListNSScoped("current")[i] : i \in 1..Len(gvkListNSScoped("current"))}
            \cup {EventKind}
    ELSE {gvkListClusterScoped("current")[i] : i \in 1..Len(gvkListClusterScoped("current"))}

\* "kubectl get Event -n ns" prints something: the namespace has pods
HasEvents(ns) == ns # NoNamespace /\ Len(Pods(ns)) > 0

\* bytes.Contains
Contains(s, sub) == \E i \in 1..(Len(s) - Len(sub) + 1) : SubSeq(s, i, i + Len(sub) - 1) = sub

\* one line of "kubectl get <kind>" for an object
KubectlRow(kind, item) ==
    IF kind = PVKind
    THEN IF \E ns \in Namespaces : \E i \in 1..Len(claims[ns]) : claims[ns][i].volumeName = item.name
         THEN LET ns == CHOOSE n \in Namespaces :
                           \E i \in 1..Len(claims[n]) : claims[n][i].volumeName = item.name
                  i == CHOOSE k \in 1..Len(claims[ns]) : claims[ns][k].volumeName = item.name
              IN item.name \o " 1Gi RWO Delete Bound " \o ns \o "/" \o claims[ns][i].name \o " ssd 10d"
         ELSE item.name \o " 1Gi RWO Delete Available ssd 10d"
    ELSE item.name \o " 1 10d"

KubectlHeader(kind) ==
    IF kind = PVKind THEN "NAME CAPACITY ACCESS MODES RECLAIM POLICY STATUS CLAIM STORAGECLASS AGE"
    ELSE "NAME WEBHOOKS AGE"

\* cmd.Output() split at the line breaks: header, one line per object, and the
\* empty piece after the last line break; nothing at all when there is no object
KubectlOutput(kind) ==
    LET items == List(kind, NoNamespace)
    IN IF Len(items) = 0 THEN <<"">>
       ELSE <<KubectlHeader(kind)>> \o [i \in 1..Len(items) |-> KubectlRow(kind, items[i])] \o <<"">>

\* the loops of the three filters: a line is appended once for every name of
\* the set it contains
RECURSIVE filterLines(_, _, _)
filterLines(outList, names, i) ==
    IF i > Len(outList) THEN <<>>
    ELSE [k \in 1..Cardinality({n \in names : Contains(outList[i], n)}) |-> outList[i]]
            \o filterLines(outList, names, i + 1)

filterPersistentVolumes(outList, nameSet) == filterLines(outList, nameSet \cup {"NAME"}, 1)

filterWebhooks(outList) ==
    filterLines(outList, {MutatingWebhookName, MutatingWebhookPrefix, ValidatingWebhookName,
                          ValidatingWebhookPrefix, "NAME"}, 1)

\* the kinds whose output is filtered among those of the cluster scope
FilteredKinds == {PVKind, MutatingWebhookKind, ValidatingWebhookKind}
NoSummary == [kind \in FilteredKinds |-> <<>>]

\* a plausible slip: the look-up of kubectl is not checked
KubectlMissingNever(kubectl) == FALSE

\* exec.LookPath(kubectlCMD) returned an error
KubectlMissing(kubectl) == ~kubectl

\* captureSummary: nothing without kubectl on the path; else one command per
\* kind, the summary file of the scope and the events file when there are
\* events; in the cluster scope filterPersistentVolumes adds the header word to
\* the package-level name set
captureSummary(c, ns, kubectl, fails) ==
    LET ran == [c EXCEPT !.cmds = @ \cup {<<kind, ns>> : kind \in SummaryKinds(ns)}]
        seen == IF ns = NoNamespace THEN [ran EXCEPT !.pvcNameSet = @ \cup {"NAME"}] ELSE ran
    IN IF KubectlMissing(kubectl) THEN c
       ELSE IF fails THEN [seen EXCEPT !.err = "summary"]
       ELSE [seen EXCEPT !.tree = @ \cup {ScopeDir(ns) \o <<SummaryDir>>, SummaryPath(ns)}
                                   \cup (IF HasEvents(ns) THEN {EventsPath(ns)} ELSE {}),
                         !.summary = IF ns # NoNamespace THEN @
                                     ELSE [kind \in FilteredKinds |->
                                             IF kind = PVKind
                                             THEN filterPersistentVolumes(KubectlOutput(kind),
                                                                          ran.pvcNameSet)
                                             ELSE filterWebhooks(KubectlOutput(kind))]]

\* ---- CollectInfo
\* the steps of the loop body for one namespace
NamespaceSteps(rel) ==
    IF rel = "current" THEN gvkListNSScoped(rel) \o <<"summary">>
    ELSE <<"podlogs", "events">> \o gvkListNSScoped(rel)

\* the step that is capturePodLogs
PodStep(rel) == CHOOSE n \in 1..Len(NamespaceSteps(rel)) : NamespaceSteps(rel)[n] \in {"podlogs", PodKind}

\* one log stream of the namespace fails: the request for it, or the copy
LogFaults(rel, ns) ==
    [step : {PodStep(rel)}, write : {0}, stream : 1..NumStreams(Pods(ns), 1),
     how : {"stream", "read"}]

\* the capture call of one step is entered
Entered(c, step, ns) == [c EXCEPT !.trace = Append(@, <<step, ns>>)]

\* the capture call returned: the first error is the one of the call just entered
Returned(c) == IF c.err # "none" /\ c.errAt = 0 THEN [c EXCEPT !.errAt = Len(c.trace)] ELSE c

RunStep(c, rel, step, ns, fault, n) ==
    LET hit == fault.step = n
        listFails == hit /\ fault.write = 0 /\ fault.stream = 0
        listErr == IF ~listFails THEN "none"
                   ELSE IF fault.how \in {"nokind", "nokind2"} THEN fault.how ELSE "error"
        failAt == IF hit THEN fault.write ELSE 0
        in == Entered(c, step, ns)
    IN Returned(CASE step = "summary" -> captureSummary(in, ns, ci.kubectl, hit)
                  [] step = "events" ->
                        captureEvents(in, ns, events, listFails, hit /\ fault.write > 0)
                  [] step \in {"podlogs", PodKind} ->
                        capturePodLogs(in, ns, listFails, failAt,
                                       IF hit THEN fault ELSE NoFault)
                  [] OTHER -> captureObject(in, rel, step, ns, listErr, failAt))

\* a plausible slip: the error of a capture call is logged and the run goes on
AbortsNever(err) == FALSE

\* "if err != nil { return err }" after every capture call of CollectInfo
Aborts(err) == err # "none"

RECURSIVE RunSteps(_, _, _, _, _, _)
RunSteps(c, rel, steps, ns, fault, n) ==
    IF n > Len(steps) \/ Aborts(c.err) THEN c
    ELSE RunSteps(RunStep(c, rel, steps[n], ns, fault, n), rel, steps, ns, fault, n + 1)

\* the working copy of a step: the tree, the name set, the error
Work == [tree |-> tree, pvcNameSet |-> ci.pvcNameSet, err |-> ci.err, count |-> 0,
         trace |-> ci.trace, errAt |-> ci.errAt, log |-> eventsLog,
         stream |-> 0, logs |-> ci.logs, cmds |-> ci.cmds, summary |-> ci.summary,
         lists |-> ci.lists]

\* RunCollectInfo: the error of CollectInfo is logged and nil is returned
RunCollectInfo(err) == "nil"

\* where CollectInfo stands
Position(pc, pending, idx, widx) == [pc |-> pc, pending |-> pending, idx |-> idx, widx |-> widx]

\* a step returned: on an error CollectInfo returns it, else it moves on
Settle(c, fault, next, saved) ==
    /\ tree' = c.tree
    /\ eventsLog' = c.log
    /\ ci' = IF ~Aborts(c.err)
             THEN [ci EXCEPT !.pvcNameSet = c.pvcNameSet,
                             !.err = c.err,
                             !.trace = c.trace, !.errAt = c.errAt, !.logs = c.logs,
                             !.cmds = c.cmds, !.summary = c.summary,
                             !.lists = c.lists,
                             !.faulted = @ \/ fault # NoFault,
                             !.pc = next.pc, !.pending = next.pending,
                             !.idx = next.idx, !.widx = next.widx,
                             !.saved = @ \cup saved]
             ELSE [ci EXCEPT !.pvcNameSet = c.pvcNameSet,
                             !.faulted = TRUE,
                             !.err = c.err,
                             !.trace = c.trace, !.errAt = c.errAt, !.logs = c.logs,
                             !.cmds = c.cmds, !.summary = c.summary,
                             !.lists = c.lists,
                             !.ret = RunCollectInfo(c.err),
                             !.pc = "failed"]
    /\ UNCHANGED <<release, params, claims, tar, events, starts>>
    /\ UNCHANGED authVars
    /\ UNCHANGED cliVars

\* a plausible slip: the cluster pass follows the first namespace
LoopDoneAlways(left) == TRUE

\* `for ns := range params.Namespaces` has visited every namespace
LoopDone(left) == left = {}

\* the loop body for one namespace of params.Namespaces, in map order
CaptureNamespace ==
    /\ ci.pc = "ns"
    /\ \E ns \in ci.pending :
       \E fault \in Faults(Len(NamespaceSteps(release))) \cup LogFaults(release, ns)
                    \cup ListFaults(Len(NamespaceSteps(release))) :
          LET dir == [Work EXCEPT !.tree = @ \cup {ScopeDir(ns)}]
              c == RunSteps(dir, release, NamespaceSteps(release), ns, fault, 1)
              left == ci.pending \ {ns}
              pc == IF ~LoopDone(left) THEN "ns"
                    ELSE IF params.ClusterScope THEN "cluster" ELSE "tar"
          IN Settle(c, fault, Position(pc, left, 0, 0), {<<PVCKind, ns>>})

\* one kind of gvkListClusterScoped
CaptureClusterObject ==
    /\ ci.pc = "cluster"
    /\ \E fault \in Faults(1) :
          LET kind == gvkListClusterScoped(release)[ci.idx + 1]
              dir == [Work EXCEPT !.tree = @ \cup {ScopeDir(NoNamespace)}]
              c == RunStep(dir, release, kind, NoNamespace, fault, 1)
              pc == IF ci.idx + 1 < Len(gvkListClusterScoped(release)) THEN "cluster"
                    ELSE IF release = "current" THEN "summary" ELSE "webhooks"
          IN Settle(c, fault, Position(pc, {}, ci.idx + 1, 0), {<<kind, NoNamespace>>})

\* one kind of gvkListWebhooks (previous revision)
CaptureWebhooks ==
    /\ ci.pc = "webhooks"
    /\ \E fault \in Faults(1) :
          LET kind == gvkListWebhooks[ci.widx + 1]
              c == Returned(captureWebhookConfigurations(
                               Entered(Work, kind, NoNamespace), kind,
                               fault.step = 1 /\ fault.write = 0,
                               IF fault.step = 1 THEN fault.write ELSE 0))
              pc == IF ci.widx + 1 < Len(gvkListWebhooks) THEN "webhooks" ELSE "tar"
          IN Settle(c, fault, Position(pc, {}, ci.idx, ci.widx + 1), {<<kind, NoNamespace>>})

\* captureSummary of the cluster scope (current revision)
CaptureClusterSummary ==
    /\ ci.pc = "summary"
    /\ \E fails \in BOOLEAN :
          Settle(RunStep(Work, release, "summary", NoNamespace,
                         IF fails THEN Fault(1) ELSE NoFault, 1),
                 IF fails THEN Fault(1) ELSE NoFault,
                 Position("tar", {}, ci.idx, 0), {})

\* makeTarAndClean: the tree goes into the archive and is removed.  The tree is
\* kept relative to the directory the run was given, which is first read here.
MakeTarAndClean ==
    /\ ci.pc = "tar"
    /\ \E fails \in BOOLEAN, pathToStore \in BasePaths :
          /\ tar' = IF fails THEN tar ELSE {HeaderName(pathToStore, p) : p \in tree}
          /\ tree' = IF fails THEN tree ELSE {}
          /\ ci' = [ci EXCEPT !.pc = IF fails THEN "failed" ELSE "done",
                              !.err = IF fails THEN "tar" ELSE "none",
                              !.ret = RunCollectInfo(IF fails THEN "tar" ELSE "none"),
                              !.before = tree,
                              !.path = pathToStore,
                              !.faulted = @ \/ fails]
    /\ UNCHANGED <<release, params, claims, events, eventsLog, starts>>
    /\ UNCHANGED authVars
    /\ UNCHANGED cliVars

\* RunCollectInfo up to the call of CollectInfo: the root directory is made
\* and the log file opened in it; the package-level name set of a new
\* process is empty
NewTree == {<<RootOutputDir>>, <<RootOutputDir, LogFileName>>}
NewRun(namespaces, kubectl) ==
    [pc |-> "ns", pending |-> namespaces, idx |-> 0, widx |-> 0,
     pvcNameSet |-> {}, err |-> "none", faulted |-> FALSE, saved |-> {},
     kubectl |-> kubectl, trace |-> <<>>, errAt |-> 0, ret |-> "running",
     path |-> "", before |-> {}, logs |-> <<>>, cmds |-> {}, summary |-> NoSummary,
     lists |-> <<>>]

\* the processes started one after the other at the same base path
MaxStarts == 2

\* os.Mkdir fails when the path exists
Mkdir(t, dir) == dir \in t

\* akoctl collectinfo is started again with the same flags at the same base
\* path, after the earlier process returned or was killed where it stood:
\* RunCollectInfo returns the error of os.Mkdir, or goes on to CollectInfo
Restart ==
    /\ ci.pc \in {"ns", "cluster", "webhooks", "summary", "tar", "failed", "done"}
    /\ Len(starts) < MaxStarts
    /\ starts' = Append(starts, tree)
    /\ IF Mkdir(tree, <<RootOutputDir>>)
       THEN /\ ci' = [NewRun({}, ci.kubectl) EXCEPT !.pc = "refused", !.err = "mkdir",
                                                     !.ret = "error"]
            /\ tree' = tree
       ELSE /\ ci' = NewRun(params.Namespaces, ci.kubectl)
            /\ tree' = tree \cup NewTree
    /\ UNCHANGED <<release, params, claims, tar, events, eventsLog>>
    /\ UNCHANGED authVars
    /\ UNCHANGED cliVars

\* no collectinfo run
NoCollect ==
    /\ release = "current"
    /\ params = [Namespaces |-> {}, ClusterScope |-> FALSE]
    /\ claims = [n \in Namespaces |-> <<>>]
    /\ ci = [pc |-> "idle", pending |-> {}, idx |-> 0, widx |-> 0, pvcNameSet |-> {},
             err |-> "none", faulted |-> FALSE, saved |-> {}, kubectl |-> TRUE,
             trace |-> <<>>, errAt |-> 0, ret |-> "running", path |-> "", before |-> {},
             logs |-> <<>>, cmds |-> {}, summary |-> NoSummary, lists |-> <<>>]
    /\ tree = {}
    /\ tar = {}
    /\ events = <<>>
    /\ eventsLog = [n \in Namespaces |-> <<>>]
    /\ starts = <<>>

\* ---- getInterval (previous revision)
\* the clock of the run, in seconds; a timestamp of 0 is the zero time
Now == 1000
ZeroTime == 0
IsZero(timestamp) == timestamp = ZeroTime

\* time.Since
Since(timestamp) == Now - timestamp

\* duration.HumanDuration, for durations below three hours
HumanDuration(d) ==
    IF d < -1 THEN "<invalid>"
    ELSE IF d < 0 THEN "0s"
    ELSE IF d < 60 * 2 THEN ToString(d) \o "s"
    ELSE LET minutes == d \div 60
             s == d % 60
         IN IF minutes < 10 /\ s # 0 THEN ToString(minutes) \o "m" \o ToString(s) \o "s"
            ELSE ToString(minutes) \o "m"

\* translateTimestampSince and translateMicroTimestampSince
translateTimestampSince(timestamp) ==
    IF IsZero(timestamp) THEN "<unknown>" ELSE HumanDuration(Since(timestamp))
translateMicroTimestampSince(timestamp) ==
    IF IsZero(timestamp) THEN "<unknown>" ELSE HumanDuration(Since(timestamp))

\* e.Series == nil
NoSeries == [Count |-> 0, LastObservedTime |-> ZeroTime, set |-> FALSE]
Series(count, lastObservedTime) ==
    [Count |-> count, LastObservedTime |-> lastObservedTime, set |-> TRUE]

\* fmt.Sprintf("%s (x%d over %s)", ...)
Sprintf(last, count, first) == last \o " (x" \o ToString(count) \o " over " \o first \o ")"

\* a plausible slip: the repeat count is looked at before the series
getIntervalCountFirst(e) ==
    LET firstTimestampSince == IF IsZero(e.EventTime)
                               THEN translateTimestampSince(e.FirstTimestamp)
                               ELSE translateMicroTimestampSince(e.EventTime)
    IN IF e.Count > 1
       THEN Sprintf(translateTimestampSince(e.LastTimestamp), e.Count, firstTimestampSince)
       ELSE IF e.Series.set
       THEN Sprintf(translateMicroTimestampSince(e.Series.LastObservedTime),
                    e.Series.Count, firstTimestampSince)
       ELSE firstTimestampSince

getInterval(e) ==
    LET firstTimestampSince == IF IsZero(e.EventTime)
                               THEN translateTimestampSince(e.FirstTimestamp)
                               ELSE translateMicroTimestampSince(e.EventTime)
    IN IF e.Series.set
       THEN Sprintf(translateMicroTimestampSince(e.Series.LastObservedTime),
                    e.Series.Count, firstTimestampSince)
       ELSE IF e.Count > 1
       THEN Sprintf(translateTimestampSince(e.LastTimestamp), e.Count, firstTimestampSince)
       ELSE firstTimestampSince

\* the events getInterval is tried on
IntervalEvents ==
    [EventTime : {ZeroTime, 700}, FirstTimestamp : {ZeroTime, 400},
     LastTimestamp : {ZeroTime, 955}, Count : {0, 1, 2},
     Series : {NoSeries} \cup {Series(c, t) : c \in {1, 3}, t \in {ZeroTime, 940}}]

NoEvent == [EventTime |-> ZeroTime, FirstTimestamp |-> ZeroTime, LastTimestamp |-> ZeroTime,
            Count |-> 0, Series |-> NoSeries]
NoInterval == ""

\* appendOneEvent asks for the first column of one event
GetInterval ==
    /\ interval = NoInterval
    /\ interval' = getInterval(event)
    /\ UNCHANGED <<event, flags, validated>>
    /\ UNCHANGED authVars
    /\ UNCHANGED collectVars

\* ---- Parameters.ValidateNamespaces
NoFlags == [namespaces |-> <<>>, AllNamespaces |-> FALSE]
NotValidated == [err |-> "pending", Namespaces |-> {}]

\* a plausible slip: one absent namespace is enough to refuse
AllAbsentAny(nonExistentNs, userNsSet) == TRUE

\* nonExistentNs.Len() == userNsSet.Len()
AllAbsent(nonExistentNs, userNsSet) == Cardinality(nonExistentNs) = Cardinality(userNsSet)

\* p.Namespaces is set only on success
ValidateNamespaces(p, namespaces, allNsSet, listFails) ==
    LET userNsSet == SeqToSet(namespaces)
        nonExistentNs == userNsSet \ allNsSet
    IN IF Len(namespaces) = 0 /\ ~p.AllNamespaces
       THEN [err |-> "either namespaces or all-namespaces argument must be provided",
             Namespaces |-> {}]
       ELSE IF listFails THEN [err |-> "list", Namespaces |-> {}]
       ELSE IF p.AllNamespaces THEN [err |-> "nil", Namespaces |-> allNsSet]
       ELSE IF nonExistentNs # {} /\ AllAbsent(nonExistentNs, userNsSet)
       THEN [err |-> "all given namespaces are not present in cluster", Namespaces |-> {}]
       ELSE [err |-> "nil", Namespaces |-> userNsSet \ nonExistentNs]

\* the names the --namespaces flag may carry: up to MaxGiven, repeats allowed,
\* one of them never in the cluster
MaxGiven == 2
GivenNames == Namespaces \cup {"ns3"}
GivenLists == UNION {[1..n -> GivenNames] : n \in 0..MaxGiven}

\* NewTestParams and the commands' PersistentPreRunE validate the flags once
Validate ==
    /\ validated = NotValidated
    /\ validated' = ValidateNamespaces(flags, flags.namespaces, nsExists, apiFail = "list")
    /\ UNCHANGED <<event, interval, flags>>
    /\ UNCHANGED authVars
    /\ UNCHANGED collectVars

\* no event is formatted and no flag validated
NoCli == event = NoEvent /\ interval = NoInterval /\ flags = NoFlags /\ validated = NotValidated

\* the API call classes the server may reject with an error that is neither
\* not-found nor already-exists
FailureClasses == {"none", "create_sa", "create_binding", "get", "update", "delete"}

\* the clusters a command may meet: no binding yet, bindings to the role that
\* also serve other subjects, or bindings of the same names that point at
\* another role
Fixtures ==
    { [crb |-> Absent, rb |-> [n \in Namespaces |-> Absent]],
      [crb |-> Binding(<<ForeignUser, ForeignSA>>, DesiredRoleRef),
       rb |-> [n \in Namespaces |->
                  IF n = "ns2" THEN Binding(<<ForeignUser>>, DesiredRoleRef) ELSE Absent]],
      [crb |-> Binding(<<ForeignUser>>, OtherRoleRef),
       rb |-> [n \in Namespaces |->
                  IF n = "ns1" THEN Binding(<<ForeignUser>>, OtherRoleRef) ELSE Absent]] }

InitObjects ==
    /\ NoCli
    /\ nsExists \in {Namespaces, {"ns1"}}
    /\ \E f \in Fixtures : crb = f.crb /\ rb = f.rb
    /\ sa = {}
    /\ clusterRole = TRUE
    /\ hist = <<>>

Init == InitObjects /\ apiFail \in FailureClasses /\ NoCollect

Next == AuthCreate(FALSE) \/ AuthDelete(FALSE)

vars == <<authVars, collectVars, cliVars>>

\* any number of commands, each meeting whatever the earlier ones left
Spec == Init /\ [][Next]_vars

\* up to MaxRuns commands against a server that rejects nothing, all remembered
InitSeq == InitObjects /\ apiFail = "none" /\ NoCollect

NextSeq == AuthCreate(TRUE) \/ AuthDelete(TRUE)

SpecSeq == InitSeq /\ [][NextSeq]_vars

\* one akoctl collectinfo process: RunCollectInfo has made the root directory,
\* the package-level name set is empty
InitCollect ==
    /\ NoCli
    /\ nsExists = Namespaces /\ apiFail = "none" /\ sa = {} /\ clusterRole = TRUE
    /\ crb = Absent /\ rb = [n \in Namespaces |-> Absent] /\ hist = <<>>
    /\ release \in Releases
    /\ params \in [Namespaces : TargetSets, ClusterScope : BOOLEAN]
    /\ claims \in [Namespaces -> ClaimLists]
    /\ \E kubectl \in BOOLEAN : ci = NewRun(params.Namespaces, kubectl)
    /\ tree = NewTree
    /\ tar = {}
    /\ starts = <<{}>>
    /\ events = <<>>
    /\ eventsLog = [n \in Namespaces |-> <<>>]

NextCollect ==
    \/ CaptureNamespace
    \/ CaptureClusterObject
    \/ CaptureWebhooks
    \/ CaptureClusterSummary
    \/ MakeTarAndClean

SpecCollect == InitCollect /\ [][NextCollect]_vars

\* ---- the event capture of one namespace, for every event list
Times == 1..2
Messages == {<<"Started container", "">>, <<"Back-off", "restarting failed container">>}

\* the lists of up to MaxEvents events; the involved object of an event is
\* numbered by its place in the list the server returns
EventLists ==
    UNION {{[i \in 1..n |-> [object |-> i, created |-> t[i], message |-> m[i]]] :
               t \in [1..n -> Times], m \in [1..n -> Messages]} : n \in 0..MaxEvents}

\* the ways a list is cut into pages
RECURSIVE Paginations(_)
Paginations(list) ==
    IF Len(list) = 0 THEN {<<>>}
    ELSE UNION {{<<SubSeq(list, 1, k)>> \o rest : rest \in Paginations(SubSeq(list, k + 1, Len(list)))} :
                   k \in 1..Len(list)}

InitEvents ==
    /\ NoCli
    /\ nsExists = Namespaces /\ apiFail = "none" /\ sa = {} /\ clusterRole = TRUE
    /\ crb = Absent /\ rb = [n \in Namespaces |-> Absent] /\ hist = <<>>
    /\ release = "previous"
    /\ params = [Namespaces |-> {"ns1"}, ClusterScope |-> FALSE]
    /\ claims = [n \in Namespaces |-> <<>>]
    /\ ci = NewRun(params.Namespaces, TRUE)
    /\ tree = NewTree
    /\ tar = {}
    /\ starts = <<{}>>
    /\ \E list \in EventLists : events \in Paginations(list)
    /\ eventsLog = [n \in Namespaces |-> <<>>]

NextEvents == CaptureNamespace

SpecEvents == InitEvents /\ [][NextEvents]_vars

\* akoctl collectinfo --cluster-scope -n ns1, started up to MaxStarts times
InitRestart ==
    /\ NoCli
    /\ nsExists = Namespaces /\ apiFail = "none" /\ sa = {} /\ clusterRole = TRUE
    /\ crb = Absent /\ rb = [n \in Namespaces |-> Absent] /\ hist = <<>>
    /\ release \in Releases
    /\ params = [Namespaces |-> {"ns1"}, ClusterScope |-> TRUE]
    /\ claims = [n \in Namespaces |-> IF n = "ns1" THEN <<Claim("data", "pv1")>> ELSE <<>>]
    /\ ci = NewRun(params.Namespaces, TRUE)
    /\ tree = NewTree
    /\ tar = {}
    /\ starts = <<{}>>
    /\ events = <<>>
    /\ eventsLog = [n \in Namespaces |-> <<>>]

NextRestart == NextCollect \/ Restart

SpecRestart == InitRestart /\ [][NextRestart]_vars

\* getInterval on one event
InitInterval ==
    /\ nsExists = Namespaces /\ apiFail = "none" /\ sa = {} /\ clusterRole = TRUE
    /\ crb = Absent /\ rb = [n \in Namespaces |-> Absent] /\ hist = <<>>
    /\ NoCollect
    /\ event \in IntervalEvents
    /\ interval = NoInterval /\ flags = NoFlags /\ validated = NotValidated

NextInterval == GetInterval

SpecInterval == InitInterval /\ [][NextInterval]_vars

\* ValidateNamespaces on one command line, against a cluster with any of the
\* namespaces and a server that may refuse to list them
InitValidate ==
    /\ nsExists \in SUBSET Namespaces /\ apiFail \in {"none", "list"}
    /\ sa = {} /\ clusterRole = TRUE
    /\ crb = Absent /\ rb = [n \in Namespaces |-> Absent] /\ hist = <<>>
    /\ NoCollect
    /\ event = NoEvent /\ interval = NoInterval
    /\ flags \in [namespaces : GivenLists, AllNamespaces : BOOLEAN]
    /\ validated = NotValidated

NextValidate == Validate

SpecValidate == InitValidate /\ [][NextValidate]_vars

\* ------------------------------------------------------ claims: pkg/auth
Ranged == Len(hist) > 0
Last == hist[Len(hist)]
\* the cluster-role-binding as command i left it
CrbAfter(i) == IF i = Len(hist) THEN crb ELSE hist[i + 1].pre.crb
RbAfter(i) == IF i = Len(hist) THEN rb ELSE hist[i + 1].pre.rb

Updates(r) == {c \in r.calls : c.verb = "update"}

\* two Create runs in succession, same namespace set and scope, all namespaces
\* exist, both succeed: positions i and i+1 of hist
CreatedTwice(i) ==
    /\ i + 1 <= Len(hist)
    /\ hist[i].op = "create" /\ hist[i + 1].op = "create"
    /\ hist[i].namespaces = hist[i + 1].namespaces
    /\ hist[i].clusterScope = hist[i + 1].clusterScope
    /\ hist[i].namespaces \subseteq nsExists
    /\ hist[i].err = "none" /\ hist[i + 1].err = "none"

\* C1 (as stated): the second of two identical Create runs changes no subject
\* list and issues no Update call, whatever the two iteration orders were.
C1_SecondCreateNoUpdate ==
    \A i \in 1..MaxRuns :
       CreatedTwice(i) =>
          /\ Updates(hist[i + 1]) = {}
          /\ CrbAfter(i + 1).subjects = hist[i + 1].pre.crb.subjects
          /\ \A ns \in Namespaces : RbAfter(i + 1)[ns].subjects = hist[i + 1].pre.rb[ns].subjects

\* the three commands of C2 at positions 1..3: cluster-scope Create {a}, Create {b},
\* Delete {b}, starting with no cluster-role-binding, a # b, both namespaces exist
IsRun(r, op, ns) ==
    r.op = op /\ r.clusterScope /\ r.namespaces = {ns} /\ r.err = "none"

CreatedAThenB(a, b) ==
    /\ Len(hist) >= 2
    /\ a # b /\ {a, b} \subseteq nsExists
    /\ ~hist[1].pre.crb.exists
    /\ IsRun(hist[1], "create", a)
    /\ IsRun(hist[2], "create", b)

\* C2: from no cluster-role-binding, cluster-scope Create {a} then Create {b} leave
\* a binding whose subject set is exactly the two service accounts; a cluster-scope
\* Delete {b} after that leaves exactly the service account of a.
C2_UnionThenRemoval ==
    \A a, b \in Namespaces :
       CreatedAThenB(a, b) =>
          /\ CrbAfter(2).exists
          /\ SeqToSet(CrbAfter(2).subjects) = {Subject(a), Subject(b)}
          /\ (Len(hist) >= 3 /\ IsRun(hist[3], "delete", b)) =>
                /\ CrbAfter(3).exists
                /\ SeqToSet(CrbAfter(3).subjects) = {Subject(a)}

C2_Witness ==
    \E a, b \in Namespaces :
       CreatedAThenB(a, b) /\ Len(hist) >= 3 /\ IsRun(hist[3], "delete", b)

\* the bindings createOrUpdateBinding reached in the last Create: kind and namespace
BindingsOf(r) ==
    {<<RoleBindingKind, ns>> : ns \in r.namespaces} \cup {<<ClusterRoleBindingKind, NoNamespace>>}

StoredNow(kind, ns) == IF kind = RoleBindingKind THEN rb[ns] ELSE crb
StoredBefore(r, kind, ns) == IF kind = RoleBindingKind THEN r.pre.rb[ns] ELSE r.pre.crb

\* createOrUpdateBinding read the existing binding (Create said already-exists and
\* the Get succeeded) and its roleRef is not the desired one
FoundOtherRoleRef(r, kind, ns) ==
    /\ r.op = "create"
    /\ Call("get", kind, ns) \in r.calls
    /\ apiFail # "get"
    /\ StoredBefore(r, kind, ns).exists
    /\ StoredBefore(r, kind, ns).roleRef # DesiredRoleRef

\* C3: an existing binding with another roleRef makes createOrUpdateBinding return
\* an error, issue no Update, and leave the stored subjects and roleRef as they were.
C3_RoleRefMismatchRejected ==
    Ranged =>
       \A b \in BindingsOf(Last) :
          FoundOtherRoleRef(Last, b[1], b[2]) =>
             /\ Last.err # "none"
             /\ Call("update", b[1], b[2]) \notin Last.calls
             /\ StoredNow(b[1], b[2]) = StoredBefore(Last, b[1], b[2])

C3_Witness ==
    /\ Ranged
    /\ \E b \in BindingsOf(Last) : FoundOtherRoleRef(Last, b[1], b[2]) /\ Last.err = "roleRef"

\* a cluster-scope Delete that read the binding and found every subject to be a
\* service account of a target namespace
EmptiedBinding(r) ==
    /\ r.op = "delete" /\ r.clusterScope /\ r.err = "none"
    /\ r.pre.crb.exists
    /\ filtered(r.pre.crb.subjects, r.namespaces) = <<>>

\* C4 (as stated): when a cluster-scope Delete removes every subject, the
\* ClusterRoleBinding no longer exists after Delete returns.
C4_EmptiedBindingDeleted ==
    (Ranged /\ apiFail = "none" /\ EmptiedBinding(Last)) => ~crb.exists

\* a cluster-scope Delete whose targets' service accounts are no subject of the
\* existing, non-empty binding
Untouched(r) ==
    /\ r.op = "delete" /\ r.clusterScope
    /\ r.pre.crb.exists
    /\ r.pre.crb.subjects # <<>>
    /\ \A ns \in r.namespaces : Subject(ns) \notin SeqToSet(r.pre.crb.subjects)

\* C5: a cluster-scope Delete for namespaces whose service accounts are no subject
\* of the existing non-empty binding issues no Update and no Delete on the binding
\* and leaves its subject list unchanged.
C5_UntouchedNamespaceNoEffect ==
    (Ranged /\ Untouched(Last)) =>
       /\ Call("update", ClusterRoleBindingKind, NoNamespace) \notin Last.calls
       /\ Call("delete", ClusterRoleBindingKind, NoNamespace) \notin Last.calls
       /\ crb = Last.pre.crb

C5_Witness ==
    Ranged /\ Untouched(Last) /\ Last.err = "none"
       /\ Call("get", ClusterRoleBindingKind, NoNamespace) \in Last.calls

\* the number of subjects of the binding that name namespace ns
SubjectsFor(b, ns) == Cardinality({i \in 1..Len(b.subjects) : b.subjects[i].namespace = ns
                                                        /\ b.subjects[i].name = ServiceAccountName
                                                        /\ b.subjects[i].kind = ServiceAccountKind})

\* C6 (as stated): whenever Create returns success for existing target namespaces,
\* whatever each API call returned, every target has the service account, in
\* namespace scope every target has the role binding, and in cluster scope the
\* cluster-role-binding exists with exactly one subject per target.
C6_CreateSuccessMeansCreated ==
    (Ranged /\ Last.op = "create" /\ Last.err = "none" /\ Last.namespaces \subseteq nsExists) =>
       /\ Last.namespaces \subseteq sa
       /\ ~Last.clusterScope => \A ns \in Last.namespaces : rb[ns].exists
       /\ Last.clusterScope =>
             crb.exists /\ \A ns \in Last.namespaces : SubjectsFor(crb, ns) = 1

\* C7 (as stated): whenever Delete returns success, no target has the service
\* account, in namespace scope no target has the role binding, and in cluster
\* scope a cluster-role-binding that still exists has no service-account subject
\* of a target namespace.
C7_DeleteSuccessMeansDeleted ==
    (Ranged /\ Last.op = "delete" /\ Last.err = "none") =>
       /\ Last.namespaces \cap sa = {}
       /\ ~Last.clusterScope => \A ns \in Last.namespaces : ~rb[ns].exists
       /\ (Last.clusterScope /\ crb.exists) =>
             \A ns \in Last.namespaces : SubjectsFor(crb, ns) = 0

\* the Create of the service account in ns came back not-found
NamespaceMissing(r, ns) ==
    /\ r.op = "create"
    /\ Call("create", ServiceAccountKind, ns) \in r.calls
    /\ apiFail # "create_sa"
    /\ ns \notin nsExists

\* C8: a namespace whose service-account Create fails with not-found gets no role
\* binding call and no subject; the run returns no error on its account (an error
\* comes only from reading or writing a binding that exists) and a run that
\* returns success has entered the loop body of every target namespace.
C8_MissingNamespaceSkipped ==
    Ranged =>
       \A ns \in Last.namespaces :
          NamespaceMissing(Last, ns) =>
             /\ \A c \in Last.calls : c.kind = RoleBindingKind => c.ns # ns
             /\ SubjectsFor(crb, ns) = SubjectsFor(Last.pre.crb, ns)
             /\ Last.err # "none" => \E c \in Last.calls : c.verb \in {"get", "update"} /\ c.ns # ns
             /\ Last.err = "none" => Last.visited = Last.namespaces

C8_Witness ==
    /\ Ranged
    /\ NamespaceMissing(Last, "ns2")
    /\ Last.namespaces = Namespaces
    /\ Last.err = "none"
    /\ "ns1" \in sa

\* ----------------------------------------------- claims: pkg/collectinfo
Collecting == ci.pc # "idle"

\* the path was written by the run: it is in the directory or in the archive
InOutput(p) == p \in tree \/ (tar # {} /\ HeaderName(ci.path, p) \in tar)

\* the capture of this kind returned without an error
Saved(kind, ns) == <<kind, ns>> \in ci.saved

\* the volume names of the claims of the target namespaces
ClaimedVolumes ==
    UNION {{claims[ns][i].volumeName : i \in 1..Len(claims[ns])} : ns \in params.Namespaces}
       \ {NoVolume}

PVWritten(name) == InOutput(FilePath(NoNamespace, PVKind, name))

\* C9: in a cluster-scope run of the current revision a persistent volume is
\* written only if a claim listed in a target namespace names it, and once the
\* capture of persistent volumes has returned every such volume is written.
C9_VolumeWrittenIffClaimed ==
    (Collecting /\ release = "current" /\ params.ClusterScope) =>
       \A i \in 1..Len(PersistentVolumes) :
          LET name == PersistentVolumes[i].name
          IN /\ PVWritten(name) => name \in ClaimedVolumes
             /\ Saved(PVKind, NoNamespace) => (name \in ClaimedVolumes => PVWritten(name))

C9_Witness ==
    /\ release = "current" /\ params.ClusterScope
    /\ params.Namespaces = {"ns1"}
    /\ Saved(PVKind, NoNamespace)
    /\ "pv2" \notin ClaimedVolumes
    /\ \E i \in 1..Len(claims["ns2"]) : claims["ns2"][i].volumeName = "pv2"
    /\ PVWritten("pv1")
    /\ ~PVWritten("pv2") /\ ~PVWritten("pv4")

WebhookKinds == {MutatingWebhookKind, ValidatingWebhookKind}

PrefixOf(kind) ==
    IF kind = MutatingWebhookKind
    THEN IF release = "current" THEN MutatingWebhookPrefix ELSE MutatingWebhookPrefixPrev
    ELSE IF release = "current" THEN ValidatingWebhookPrefix ELSE ValidatingWebhookPrefixPrev

ExactNameOf(kind) ==
    IF kind = MutatingWebhookKind THEN MutatingWebhookName ELSE ValidatingWebhookName

WebhookWritten(kind, name) == InOutput(FilePath(NoNamespace, kind, name))

\* C10: a webhook configuration of either kind is written only if its name starts
\* with the prefix of its kind or is the well-known name of its kind; once the
\* capture of the kind has returned every such configuration is written; and a
\* run in which no call failed returns no error although it skipped the others.
C10_WebhookWrittenIffNamed ==
    Collecting =>
       /\ \A kind \in WebhookKinds : \A i \in 1..Len(WebhookNames) :
             LET name == WebhookNames[i]
                 named == HasPrefix(name, PrefixOf(kind)) \/ name = ExactNameOf(kind)
             IN /\ WebhookWritten(kind, name) => named
                /\ Saved(kind, NoNamespace) => (named => WebhookWritten(kind, name))
       /\ ~ci.faulted => ci.err = "none"

C10_Witness ==
    /\ Collecting /\ ~ci.faulted
    /\ \A kind \in WebhookKinds : Saved(kind, NoNamespace)
    /\ WebhookWritten(MutatingWebhookKind, MutatingWebhookName)
    /\ WebhookWritten(ValidatingWebhookKind, ValidatingWebhookName)
    /\ ~WebhookWritten(MutatingWebhookKind, ValidatingWebhookName)
    /\ ~WebhookWritten(ValidatingWebhookKind, "cert-manager-webhook")

\* the capture calls the run entered, as <<kind or step, namespace>>
Calls == {ci.trace[i] : i \in 1..Len(ci.trace)}
CallsBeforeLast == {ci.trace[i] : i \in 1..(Len(ci.trace) - 1)}
KindsCalled == {gvkListNSScoped(release)[i] : i \in 1..Len(gvkListNSScoped(release))}
                  \cup {gvkListClusterScoped(release)[i] : i \in 1..Len(gvkListClusterScoped(release))}
                  \cup WebhookKinds

IsUnder(dir, p) == Len(p) >= Len(dir) /\ SubSeq(p, 1, Len(dir)) = dir

\* the folders of kinds in the tree are those of calls in the given set
KindFoldersFrom(calls) ==
    \A p \in tree :
       \/ Len(p) < 3
       \/ p[Len(p)] \in {SummaryDir, SummaryFile, EventsFile}
       \/ p \in {ScopeDir(ns) : ns \in Namespaces}
       \/ \E t \in calls : t[1] \in KindsCalled /\ IsUnder(KindDir(t[2], t[1]), p)
       \/ \E t \in calls : t[1] = "podlogs" /\ IsUnder(KindDir(t[2], PodKind), p)

\* C11: when a List call fails CollectInfo returns: the failing call is the last
\* capture call of the run, nothing of its kind, of a later kind, of a later
\* namespace or of the cluster pass is in the tree, no archive exists and the
\* tree written so far is still on disk.
C11_ListFailureAborts ==
    (Collecting /\ ci.err = "list") =>
       /\ ci.pc = "failed"
       /\ ci.errAt = Len(ci.trace)
       /\ KindFoldersFrom(CallsBeforeLast)
       /\ \A ns \in Namespaces \cup {NoNamespace} :
             ScopeDir(ns) \in tree => \E t \in Calls : t[2] = ns
       /\ tar = {}
       /\ <<RootOutputDir>> \in tree

C11_Witness ==
    /\ Collecting /\ ci.err = "list" /\ ci.pc = "failed"
    /\ params.ClusterScope
    /\ ci.trace[Len(ci.trace)][1] = PVCKind
    /\ \E ns \in params.Namespaces :
          /\ ci.trace[Len(ci.trace)][2] = ns
          /\ claims[ns] # <<>>
          /\ KindDir(ns, PVCKind) \notin tree
          /\ \E other \in params.Namespaces : KindDir(other, PVCKind) \in tree
    /\ ScopeDir(NoNamespace) \notin tree

\* C12 (as stated): when CollectInfo returns an error, RunCollectInfo returns
\* an error to its caller.
C12_RunReportsFailure ==
    (Collecting /\ ci.pc = "failed") => ci.ret = "error"

\* C13 (as stated): after makeTarAndClean returned success, whatever form the
\* base path has, the entries of the archive are exactly the files and
\* directories that were under base/akoctl_collectinfo, each named by its path
\* relative to base, and base/akoctl_collectinfo is gone.
C13_ArchiveRoundTrip ==
    (Collecting /\ ci.pc = "done") =>
       /\ tar = {JoinElements(p) : p \in ci.before}
       /\ tree = {}

\* the capture calls of captureObject whose list is empty, by their place in the
\* trace
EmptyCalls ==
    {i \in 1..Len(ci.trace) :
        /\ ci.trace[i][1] \in KindsCalled
        /\ ~(release = "current" /\ ci.trace[i][1] = PodKind)
        /\ List(ci.trace[i][1], ci.trace[i][2]) = <<>>}

EventsListed == Aggregate(events)
EventLines == Tail(eventsLog["ns1"])
EventsWritten == eventsLog["ns1"] # <<>>

\* the lines that open the record of an event, in file order
Records == SelectSeq(EventLines, LAMBDA l : l.object # NoObject)
CreatedOf(object) == EventsListed[object].created

\* the records follow creation time, and the order of the list where it is equal
RecordsInOrder ==
    \A i, j \in 1..Len(Records) :
       i < j => \/ CreatedOf(Records[i].object) < CreatedOf(Records[j].object)
                \/ /\ CreatedOf(Records[i].object) = CreatedOf(Records[j].object)
                   /\ Records[i].object < Records[j].object

\* C14 (as stated): the event file holds exactly one line per listed event, in
\* non-decreasing order of creation time, ties in list order.
C14_OneLinePerEvent ==
    EventsWritten =>
       /\ Len(EventLines) = Len(EventsListed)
       /\ \A i \in 1..Len(EventLines) : EventLines[i].object # NoObject
       /\ RecordsInOrder

\* C14 (amended): the event file holds exactly one record per listed event, a
\* record being the columns and the trimmed message and taking as many lines as
\* the trimmed message has; the records are in non-decreasing order of creation
\* time, ties in list order, however the list was cut into pages.
C14_OneRecordPerEvent ==
    EventsWritten =>
       /\ Len(Records) = Len(EventsListed)
       /\ {Records[i].object : i \in 1..Len(Records)} = 1..Len(EventsListed)
       /\ RecordsInOrder
       /\ \A i \in 1..Len(EventLines) :
             /\ EventLines[i].text # ""
             /\ i = 1 => EventLines[i].object # NoObject

C14_Witness ==
    /\ EventsWritten
    /\ Len(events) > 1
    /\ Len(Records) = MaxEvents
    /\ Len(EventLines) > Len(Records)
    /\ \E i, j \in 1..Len(Records) :
          /\ i < j /\ Records[i].object > Records[j].object
    /\ \E i, j \in 1..Len(Records) :
          /\ i < j /\ CreatedOf(Records[i].object) = CreatedOf(Records[j].object)

\* ------------------------------------------------ claims: capturePodLogs
\* the log streams of the run that could not be obtained or could not be read
LogFailures == {i \in 1..Len(ci.logs) : ci.logs[i].result \in {"stream", "read"}}
AttemptsIn(ns) == {i \in 1..Len(ci.logs) : ci.logs[i].ns = ns}
PodOf(a) == CHOOSE pod \in {Pods(a.ns)[k] : k \in 1..Len(Pods(a.ns))} : pod.name = a.pod

\* C16 (as stated): a log stream that cannot be obtained or read never makes
\* capturePodLogs return an error: the run does not fail at that call, no log
\* file is written for that stream, and every other stream of every container,
\* init container and pod of the namespace is still asked for.
C16_LogFailureIsSkipped ==
    Collecting =>
       \A i \in LogFailures :
          LET a == ci.logs[i]
          IN /\ ci.err \notin {"stream", "read"}
             /\ ~InOutput(LogPath(a.ns, PodOf(a), a.container, a.previous))
             /\ Cardinality(AttemptsIn(a.ns)) = NumStreams(Pods(a.ns), 1)

\* ------------------------------------------------ claims: captureSummary
SummaryCalls == {i \in 1..Len(ci.trace) : ci.trace[i][1] = "summary"}

\* C17: without kubectl on the path captureSummary runs no command, writes
\* neither the summary file nor the events file and returns nil, so that the
\* run goes on with the next namespace, the cluster pass and the archive.
C17_NoKubectlNoSummary ==
    (Collecting /\ ~ci.kubectl) =>
       /\ ci.cmds = {}
       /\ \A ns \in Namespaces \cup {NoNamespace} :
             ~InOutput(SummaryPath(ns)) /\ ~InOutput(EventsPath(ns))
       /\ \A i \in SummaryCalls :
             /\ ci.errAt # i
             /\ i = Len(ci.trace) => (ci.pc # "failed" \/ ci.err = "tar")

C17_Witness ==
    /\ Collecting /\ ~ci.kubectl /\ release = "current"
    /\ ci.pc = "done" /\ ci.err = "none" /\ tar # {}
    /\ {<<"summary", "ns1">>, <<"summary", "ns2">>, <<"summary", NoNamespace>>} \subseteq Calls
    /\ \E i \in SummaryCalls : i < Len(ci.trace) /\ ci.trace[i + 1][2] # ci.trace[i][2]
    /\ HeaderName(ci.path, FilePath(NoNamespace, PVKind, "pv1")) \in tar

\* ------------------------------------------------ claims: pkg/auth, second part
\* C18 (as stated): a cluster-scope Delete that finds no cluster-role-binding
\* returns success.
C18_MissingBindingIsSuccess ==
    (Ranged /\ Last.op = "delete" /\ Last.clusterScope /\ apiFail = "none"
       /\ ~Last.pre.crb.exists) =>
       Last.err = "none"

\* the subjects the run asked for are all in the stored list
AllPresent(stored, namespaces) ==
    \A ns \in namespaces : \E k \in 1..Len(stored.subjects) : stored.subjects[k] = Subject(ns)

\* C20 (as stated): a Create that finds the binding with the desired roleRef
\* and every desired subject already in it issues no Update call for it.
C20_UnchangedMergeNoUpdate ==
    (Ranged /\ Last.op = "create" /\ apiFail = "none" /\ Last.namespaces \subseteq nsExists) =>
       /\ (Last.clusterScope /\ Last.pre.crb.exists /\ Last.pre.crb.roleRef = DesiredRoleRef
             /\ AllPresent(Last.pre.crb, Last.namespaces)) =>
             \A c \in Updates(Last) : c.kind # ClusterRoleBindingKind
       /\ ~Last.clusterScope =>
             \A ns \in Last.namespaces :
                (Last.pre.rb[ns].exists /\ Last.pre.rb[ns].roleRef = DesiredRoleRef
                   /\ AllPresent(Last.pre.rb[ns], {ns})) =>
                   \A c \in Updates(Last) : ~(c.kind = RoleBindingKind /\ c.ns = ns)

\* ------------------------------------------------ claims: CollectInfo, order
\* what a run starts from
FreshWork ==
    [tree |-> {<<RootOutputDir>>, <<RootOutputDir, LogFileName>>}, pvcNameSet |-> {},
     err |-> "none", count |-> 0, trace |-> <<>>, errAt |-> 0,
     log |-> [n \in Namespaces |-> <<>>], stream |-> 0, logs |-> <<>>, cmds |-> {},
     summary |-> NoSummary, lists |-> <<>>]

\* the namespace loop with the namespaces taken in the given order, no call failing
RECURSIVE RunNamespaces(_, _, _)
RunNamespaces(c, order, i) ==
    IF i > Len(order) THEN c
    ELSE RunNamespaces(RunSteps([c EXCEPT !.tree = @ \cup {ScopeDir(order[i])}], release,
                                NamespaceSteps(release), order[i], NoFault, 1),
                       order, i + 1)

RECURSIVE RunKinds(_, _, _)
RunKinds(c, kinds, i) ==
    IF i > Len(kinds) THEN c
    ELSE RunKinds(RunStep(c, release, kinds[i], NoNamespace, NoFault, 1), kinds, i + 1)

RECURSIVE RunWebhooks(_, _)
RunWebhooks(c, i) ==
    IF i > Len(gvkListWebhooks) THEN c
    ELSE RunWebhooks(captureWebhookConfigurations(c, gvkListWebhooks[i], FALSE, 0), i + 1)

\* the cluster pass that follows the namespace loop
RunCluster(c) ==
    LET kinds == RunKinds([c EXCEPT !.tree = @ \cup {ScopeDir(NoNamespace)}],
                          gvkListClusterScoped(release), 1)
    IN IF ~params.ClusterScope THEN c
       ELSE IF release = "current" THEN RunStep(kinds, release, "summary", NoNamespace, NoFault, 1)
       ELSE RunWebhooks(kinds, 1)

\* the whole of CollectInfo up to the archive, for one iteration order
FullRun(order) == RunCluster(RunNamespaces(FreshWork, order, 1))

\* C19: a run in which no call failed has, when it reaches the archive step,
\* written the paths and retained the volume names that a run over the same
\* cluster writes and retains for every iteration order of the namespace set.
C19_OrderIndependent ==
    (Collecting /\ ci.pc = "tar" /\ ~ci.faulted) =>
       \A order \in Orders(params.Namespaces) :
          /\ FullRun(order).tree = tree
          /\ FullRun(order).pvcNameSet = ci.pvcNameSet

C19_Witness ==
    /\ Collecting /\ ci.pc = "tar" /\ ~ci.faulted
    /\ release = "current" /\ params.ClusterScope /\ params.Namespaces = Namespaces
    /\ claims["ns1"] = <<Claim("data", "pv1")>>
    /\ claims["ns2"] = <<Claim("data", "pv2"), Claim("logs", "pv3")>>
    /\ \A name \in {"pv1", "pv2", "pv3"} : FilePath(NoNamespace, PVKind, name) \in tree
    /\ FilePath(NoNamespace, PVKind, "pv4") \notin tree
    /\ ci.trace[1][2] = "ns2"

\* ------------------------------------------------ claims: subject lists
NoDuplicates(s) == \A i, j \in 1..Len(s) : s[i] = s[j] => i = j

\* the subjects a Create run asks a binding to hold: a namespace whose service
\* account could not be created is left out only when it does not exist
DesiredSubjects(r, kind, ns) ==
    IF kind = RoleBindingKind THEN {Subject(ns)}
    ELSE {Subject(n) : n \in IF apiFail = "create_sa" THEN r.namespaces
                              ELSE r.namespaces \cap nsExists}

UpdatedByCreate(r, kind, ns) ==
    r.op = "create" /\ Call("update", kind, ns) \in r.calls /\ apiFail # "update"

\* C21: after createOrUpdateBinding updated a binding the stored list is the
\* old list, in its order, followed by exactly the desired subjects equal to no
\* old entry; a list without duplicates stays without duplicates.
C21_MergeAppendsOnly ==
    Ranged =>
       \A b \in BindingsOf(Last) :
          UpdatedByCreate(Last, b[1], b[2]) =>
             LET old == StoredBefore(Last, b[1], b[2]).subjects
                 new == StoredNow(b[1], b[2]).subjects
             IN /\ Len(new) >= Len(old)
                /\ SubSeq(new, 1, Len(old)) = old
                /\ SeqToSet(SubSeq(new, Len(old) + 1, Len(new)))
                      = DesiredSubjects(Last, b[1], b[2]) \ SeqToSet(old)
                /\ NoDuplicates(old) => NoDuplicates(new)

C21_Witness ==
    /\ Ranged /\ Last.err = "none"
    /\ UpdatedByCreate(Last, ClusterRoleBindingKind, NoNamespace)
    /\ Last.namespaces = Namespaces
    /\ Len(Last.pre.crb.subjects) = 3
    /\ Subject("ns1") \in SeqToSet(Last.pre.crb.subjects)
    /\ Len(crb.subjects) = 4

\* the place of a subject in a list without duplicates
PlaceIn(s, sub) == CHOOSE i \in 1..Len(s) : s[i] = sub

UpdatedByDelete(r) ==
    /\ r.op = "delete" /\ r.clusterScope
    /\ Call("update", ClusterRoleBindingKind, NoNamespace) \in r.calls
    /\ apiFail # "update"

\* C22: when a cluster-scope Delete updated the cluster-role-binding, the stored
\* list holds exactly the old subjects that are not the operator's service
\* account of a target namespace, in their old relative order.
C22_DeleteRemovesOnlyTargets ==
    (Ranged /\ UpdatedByDelete(Last)) =>
       LET old == Last.pre.crb.subjects
           new == crb.subjects
       IN /\ SeqToSet(new) = SeqToSet(old) \ {Subject(ns) : ns \in Last.namespaces}
          /\ NoDuplicates(old) => NoDuplicates(new)
          /\ \A i, j \in 1..Len(new) :
                i < j => PlaceIn(old, new[i]) < PlaceIn(old, new[j])

C22_Witness ==
    /\ Ranged /\ UpdatedByDelete(Last) /\ Last.err = "none"
    /\ Last.namespaces = {"ns1"}
    /\ Last.pre.crb.subjects = <<ForeignUser, ForeignSA, Subject("ns2"), Subject("ns1")>>
    /\ crb.subjects = <<ForeignUser, ForeignSA, Subject("ns2")>>

\* ------------------------------------------------ claims: Delete, the pass
\* C23: whatever became of the single deletes, a Delete run asked for the
\* delete of the service account of every target namespace and, in namespace
\* scope, of every role binding, and a namespace-scope Delete returned success.
C23_DeletePassNeverStops ==
    (Ranged /\ Last.op = "delete") =>
       /\ \A ns \in Last.namespaces :
             /\ Call("delete", ServiceAccountKind, ns) \in Last.calls
             /\ ~Last.clusterScope => Call("delete", RoleBindingKind, ns) \in Last.calls
       /\ Last.visited = Last.namespaces
       /\ ~Last.clusterScope => Last.err = "none"

C23_Witness ==
    /\ Ranged /\ Last.op = "delete" /\ ~Last.clusterScope /\ Last.err = "none"
    /\ Last.namespaces = Namespaces
    /\ apiFail = "delete"
    /\ Last.pre.sa = Namespaces /\ sa = Namespaces
    /\ \A ns \in Namespaces : Last.pre.rb[ns].exists /\ rb[ns].exists
    /\ Cardinality({c \in Last.calls : c.verb = "delete"}) = 4

\* ------------------------------------------------ claims: the two scopes
\* C29: a namespace-scope run issues no call for the cluster-role-binding or
\* the cluster role and leaves both as they were; a cluster-scope run issues no
\* create, update or delete of a role binding and leaves every role binding as
\* it was; every call for a namespaced object names a target namespace, and
\* the objects of the other namespaces are as before the run.
C29_ScopesApart ==
    Ranged =>
       /\ \A c \in Last.calls :
             /\ ~Last.clusterScope => c.kind \notin {ClusterRoleBindingKind, ClusterRoleKind}
             /\ Last.clusterScope => c.kind # RoleBindingKind
             /\ c.kind \in {ServiceAccountKind, RoleBindingKind} => c.ns \in Last.namespaces
             /\ c.kind \in {ClusterRoleBindingKind, ClusterRoleKind} => c.ns = NoNamespace
       /\ ~Last.clusterScope => (crb = Last.pre.crb /\ clusterRole = Last.pre.clusterRole)
       /\ Last.clusterScope => rb = Last.pre.rb
       /\ \A ns \in Namespaces \ Last.namespaces :
             rb[ns] = Last.pre.rb[ns] /\ (ns \in sa <=> ns \in Last.pre.sa)

C29_Witness ==
    /\ Ranged /\ Last.op = "delete" /\ Last.clusterScope /\ Last.err = "none"
    /\ apiFail = "none"
    /\ Last.namespaces = Namespaces
    /\ Last.pre.rb["ns2"].exists /\ rb["ns2"].exists
    /\ Call("update", ClusterRoleBindingKind, NoNamespace) \in Last.calls

\* ------------------------------------------------ claims: the two passes
ClusterCalls == {i \in 1..Len(ci.trace) : ci.trace[i][2] = NoNamespace}

\* C24: once a cluster-scoped capture call has been entered, every capture
\* call of every target namespace was entered (and has returned) before it, no
\* namespace is left to visit, and the linkage set holds the volume names of
\* all claims of the target namespaces and nothing else but the header word.
C24_NamespacesBeforeCluster ==
    (Collecting /\ ClusterCalls # {}) =>
       /\ params.ClusterScope /\ ci.pending = {}
       /\ \A i \in ClusterCalls : \A j \in 1..Len(ci.trace) :
             ci.trace[j][2] # NoNamespace => j < i
       /\ \A ns \in params.Namespaces : \A k \in 1..Len(NamespaceSteps(release)) :
             <<NamespaceSteps(release)[k], ns>> \in Calls
       /\ release = "current" => ci.pvcNameSet \ {"NAME"} = ClaimedVolumes

C24_Witness ==
    /\ Collecting /\ release = "current" /\ params.Namespaces = Namespaces
    /\ <<PVKind, NoNamespace>> \in Calls
    /\ ci.err = "none" /\ ci.pc = "cluster"
    /\ ClaimedVolumes = {"pv1", "pv2", "pv3"}
    /\ PVWritten("pv3")

\* ------------------------------------------------ claims: summary and dump
\* how often the line of an object stands in the filtered summary of its kind
TimesKept(kind, item) ==
    Cardinality({k \in 1..Len(ci.summary[kind]) : ci.summary[kind][k] = KubectlRow(kind, item)})

SummaryWritten == <<"summary", NoNamespace>> \in Calls /\ ci.kubectl /\ ci.err \in {"none", "tar"}

\* C25 (as stated): once the cluster summary is written, the line of a
\* persistent volume or webhook configuration stands in it exactly once if the
\* object was written by captureObject, and not at all otherwise.
C25_SummaryAgreesWithDump ==
    (Collecting /\ release = "current" /\ SummaryWritten) =>
       \A kind \in FilteredKinds : \A i \in 1..Len(List(kind, NoNamespace)) :
          LET item == List(kind, NoNamespace)[i]
          IN TimesKept(kind, item) =
                IF InOutput(FilePath(NoNamespace, kind, item.name)) THEN 1 ELSE 0

\* ------------------------------------------------ claims: the list retry
FailedLists == {k \in 1..Len(ci.lists) : ci.lists[k].version = "first"}
RetriesOf(kind, ns) ==
    {k \in 1..Len(ci.lists) : ci.lists[k].version = "v1beta1"
                                /\ ci.lists[k].kind = kind /\ ci.lists[k].ns = ns}
CallOf(kind, ns) == CHOOSE i \in 1..Len(ci.trace) : ci.trace[i] = <<kind, ns>>

\* C26: in the current revision a first list of AerospikeCluster that fails
\* with no-kind-match is followed by exactly one list at v1beta1; when that one
\* succeeds the call succeeds and the objects are written, when it fails the
\* call returns an error.  Any other failed list is not retried and the call
\* returns an error.
C26_RetryOnceForAerospikeCluster ==
    (Collecting /\ release = "current") =>
       \A k \in FailedLists :
          LET l == ci.lists[k]
              call == CallOf(l.kind, l.ns)
          IN IF l.kind = AerospikeClusterKind /\ l.answer = "nokind"
             THEN /\ RetriesOf(l.kind, l.ns) = {k + 1}
                  /\ ci.lists[k + 1].answer = "ok" =>
                        /\ ci.errAt # call
                        /\ \A i \in 1..Len(List(l.kind, l.ns)) :
                              InOutput(FilePath(l.ns, l.kind, List(l.kind, l.ns)[i].name))
                  /\ ci.lists[k + 1].answer # "ok" =>
                        ci.errAt = call /\ ci.err = "list" /\ ci.pc = "failed"
             ELSE /\ RetriesOf(l.kind, l.ns) = {}
                  /\ ci.errAt = call /\ ci.err = "list" /\ ci.pc = "failed"

C26_Witness ==
    /\ Collecting /\ release = "current" /\ ci.pc = "done"
    /\ \E k \in FailedLists :
          /\ ci.lists[k] = ListCall(AerospikeClusterKind, "ns1", "first", "nokind")
          /\ ci.lists[k + 1] = ListCall(AerospikeClusterKind, "ns1", "v1beta1", "ok")
    /\ HeaderName(ci.path, FilePath("ns1", AerospikeClusterKind, "aerocluster")) \in tar

\* ------------------------------------------------- claims: getInterval
IntervalTaken == interval # NoInterval

\* the first-seen text: the event time, or the first timestamp when the event
\* time is zero, and <unknown> when that one is zero as well
FirstSeen ==
    IF event.EventTime # ZeroTime THEN HumanDuration(Now - event.EventTime)
    ELSE IF event.FirstTimestamp = ZeroTime THEN "<unknown>"
    ELSE HumanDuration(Now - event.FirstTimestamp)

\* C27: the interval text is the series form whenever the event carries a
\* series, whatever its count; without a series it is the repeat-count form
\* when the count is above one, and the first-seen text alone otherwise.
C27_IntervalPrecedence ==
    IntervalTaken =>
       /\ event.Series.set =>
             interval = Sprintf(translateMicroTimestampSince(event.Series.LastObservedTime),
                                event.Series.Count, FirstSeen)
       /\ (~event.Series.set /\ event.Count > 1) =>
             interval = Sprintf(translateTimestampSince(event.LastTimestamp),
                                event.Count, FirstSeen)
       /\ (~event.Series.set /\ event.Count <= 1) => interval = FirstSeen

C27_Witness ==
    /\ event.Series = Series(3, 940) /\ event.Count = 2
    /\ event.EventTime = ZeroTime /\ event.FirstTimestamp = ZeroTime
    /\ interval = "60s (x3 over <unknown>)"

\* ------------------------------------------ claims: ValidateNamespaces
Validated == validated # NotValidated
Succeeded == validated.err = "nil"
Given == SeqToSet(flags.namespaces)

\* what the claim promises of a successful validation
TargetsAsPromised ==
    /\ Succeeded
    /\ validated.Namespaces = IF flags.AllNamespaces THEN nsExists ELSE Given \cap nsExists
    /\ ~flags.AllNamespaces => validated.Namespaces # {}
    /\ validated.Namespaces \subseteq nsExists

Refused == ~flags.AllNamespaces /\ (Len(flags.namespaces) = 0 \/ Given \cap nsExists = {})

\* C30: ValidateNamespaces fails when all-namespaces is off and no namespace
\* is given or none of the given ones is in the cluster; in every other case
\* it succeeds, with the given namespaces that exist as targets, or all the
\* cluster's namespaces when all-namespaces is on.
C30_ValidateNamespaces ==
    Validated => IF Refused THEN ~Succeeded ELSE TargetsAsPromised

\* C30 (amended): the same, for a validation whose list of the cluster's
\* namespaces was answered; when the list call fails, the validation fails
\* and no target is set.
C30_ValidateNamespacesWhenListed ==
    Validated =>
       IF Refused THEN ~Succeeded /\ validated.Namespaces = {}
       ELSE IF apiFail = "list" THEN ~Succeeded /\ validated.Namespaces = {}
       ELSE TargetsAsPromised

C30_Witness ==
    /\ Validated /\ Succeeded /\ apiFail = "none"
    /\ flags = [namespaces |-> <<"ns3", "ns1">>, AllNamespaces |-> FALSE]
    /\ nsExists = {"ns1"}
    /\ validated.Namespaces = {"ns1"}

\* ------------------------------------------------ claims: a run after a run
\* the process that runs now found a working tree when it started
FoundLeftover == Len(starts) > 1 /\ starts[Len(starts)] # {}

\* C28: a run that finds the working tree of an earlier run at its base path
\* discards it and proceeds: it is not refused, nothing of the earlier tree
\* stays on disk unless the new run wrote it again, and the archive holds
\* only what the new run wrote.
C28_LeftoverTreeDiscarded ==
    FoundLeftover =>
       /\ ci.pc # "refused"
       /\ ci.ret # "error"
       /\ ci.pc = "done" => tar \subseteq {HeaderName(ci.path, p) : p \in ci.before}
====
